---- MODULE Spec2Model ----
(***************************************************************************)
(* A model of the spine repository: the generic Graph primitive and its    *)
(* snapshot codec, the api.Manager operations on named graphs kept in a    *)
(* cache and saved in a directory, the line-framed RPC server in front of  *)
(* the Manager, and the standalone TaskGraph scheduler (AddTask,           *)
(* AddDependency, Ready, Transition, Run) with and without its mutex.      *)
(*                                                                         *)
(* Node and task IDs are the naturals 1..NumNodes; their numeric order     *)
(* stands for the lexical order of the ID strings ("t1" < "t2" < "t3").    *)
(* 0 stands for the empty ID string.                                       *)
(***************************************************************************)
EXTENDS Integers, Sequences, FiniteSets, TLC

\* ------------------------------------------------------------------ bounds
NumNodes == 3
MaxMeta == 1
MaxDeps == 2
MaxConcurrency == 2

IDs == 1..NumNodes

\* ------------------------------------------------------------------ state
VARIABLES
    graphs,      \* Manager.graphs: name -> cached graph
    mres,        \* what the last Manager call returned
    tg,          \* TaskGraph.graph
    tres,        \* what the last call of AddDependency, Ready or Transition returned
    pc,          \* where Run is: idle (not called), collect, ctx, trans, sem, wait,
                 \* after, returned
    concArg,     \* the concurrency argument of Run
    ready,       \* Run: the batch collected by readyLocked
    idx,         \* Run: position in the batch
    sem,         \* tokens in the semaphore channel
    wg,          \* the WaitGroup counter
    wpc,         \* per task, where its worker goroutine is: idle, spawned, fn, rel, wgdone
    taskErrors,  \* Run: IDs of the tasks whose error was appended, in order
    cancelled,   \* whether ctx.Done() is closed
    ret,         \* what Run returned
    calls,       \* per task, how many times fn was invoked
    fnErrs,      \* the tasks whose callback returned an error
    tg0,         \* the graph as it was when Run was called
    files,       \* the Manager's directory: name -> the snapshot stored in <name>.json
    lines,       \* Server.Run: the lines read from the input so far
    out,         \* Server.Run: the responses written to the output so far
    mu,          \* TaskGraph.mu: the goroutine that holds it
    cb,          \* per task, where its callback is with a call of the TaskGraph API
    epc,         \* where another goroutine is with a call of the TaskGraph API
    gr,          \* a Graph[string, string] used on its own
    gres,        \* the last operation on gr and what it returned
    ureq,        \* the request of the last Upsert of a batch
    filt,        \* the arguments of matchFilter: store entry, node data and filter
    fres,        \* what matchFilter returned
    mmu,         \* Manager.mu: the caller that holds it
    cl,          \* per caller of the Manager, where it is with its call
    base,        \* the cache and the directory when the callers started
    srun,        \* Server.Run: its input (length, oversized line) and how it returned
    doc,         \* the snapshot last given to Unmarshal or ApplyMeta
    rreq,        \* the request of the last ReadNodes
    topo         \* what the last TopologicalSort returned

mvars == <<graphs, mres>>

svars == <<files, lines, out, mu, cb, epc>>

gvars == <<gr, gres, ureq, filt, fres>>

cvars == <<mmu, cl, base>>

qvars == <<srun, doc, rreq, topo>>

nvars == <<cvars, qvars>>

xvars == <<svars, gvars, nvars>>

tvars == <<tg, tres>>

rvars == <<pc, concArg, ready, idx, sem, wg, wpc, taskErrors, cancelled, ret, calls, fnErrs,
           tg0>>

vars == <<graphs, mres, tg, tres, pc, concArg, ready, idx, sem, wg, wpc, taskErrors,
          cancelled, ret, calls, fnErrs, tg0, files, lines, out, mu, cb, epc, gr, gres, ureq,
          filt, fres, mmu, cl, base,
          srun, doc, rreq, topo>>

\* ------------------------------------------------------------------ helpers
EmptyMap == [x \in {} |-> x]

MapPut(f, k, v) == (k :> v) @@ f

MapDel(f, k) == [x \in DOMAIN f \ {k} |-> f[x]]

\* All orders in which a Go map with the key set S may be ranged over.
RECURSIVE Perms(_)
Perms(S) ==
    IF S = {} THEN {<<>>}
    ELSE UNION {{<<x>> \o p : p \in Perms(S \ {x})} : x \in S}

\* The IDs of S in ascending order, the order of Graph.Nodes().
RECURSIVE SortedSeq(_)
SortedSeq(S) ==
    IF S = {} THEN <<>>
    ELSE LET m == CHOOSE x \in S : \A y \in S : x <= y
         IN <<m>> \o SortedSeq(S \ {m})

\* The pairs of S in ascending (from, to) order.
RECURSIVE SortedPairs(_)
SortedPairs(S) ==
    IF S = {} THEN <<>>
    ELSE LET m == CHOOSE x \in S : \A y \in S : x[1] < y[1] \/ (x[1] = y[1] /\ x[2] <= y[2])
         IN <<m>> \o SortedPairs(S \ {m})

\* ------------------------------------------------------------------ Graph
NewGraph(directed) ==
    [Directed |-> directed, nodes |-> EmptyMap, out |-> EmptyMap, in |-> EmptyMap,
     nodeMeta |-> EmptyMap, edgeMeta |-> EmptyMap]

HasNode(g, id) == id \in DOMAIN g.nodes

GetNode(g, id) == g.nodes[id]

\* An AddNode that gives the node new, empty index entries.
AddNodeResets(g, id, data) ==
    [g EXCEPT !.nodes = MapPut(g.nodes, id, [ID |-> id, Data |-> data]),
              !.out = MapPut(g.out, id, EmptyMap),
              !.in = MapPut(g.in, id, EmptyMap)]

AddNode(g, id, data) ==
    [g EXCEPT !.nodes = MapPut(g.nodes, id, [ID |-> id, Data |-> data]),
              !.out = IF id \in DOMAIN g.out THEN g.out ELSE MapPut(g.out, id, EmptyMap),
              !.in = IF id \in DOMAIN g.in THEN g.in ELSE MapPut(g.in, id, EmptyMap)]

Edge(from, to, data, weight) == [From |-> from, To |-> to, Data |-> data, Weight |-> weight]

\* AddEdge on two existing nodes (the caller checks HasNode, as the code does first).
AddEdgeOk(g, from, to, data, weight) ==
    LET g1 == [g EXCEPT !.out[from] = MapPut(g.out[from], to, Edge(from, to, data, weight)),
                        !.in[to] = MapPut(g.in[to], from, Edge(from, to, data, weight))]
    IN IF g.Directed THEN g1
       ELSE [g1 EXCEPT !.out[to] = MapPut(g1.out[to], from, Edge(to, from, data, weight)),
                       !.in[from] = MapPut(g1.in[from], to, Edge(to, from, data, weight))]

AddEdge(g, from, to, data, weight) ==
    IF ~HasNode(g, from) \/ ~HasNode(g, to)
    THEN [g |-> g, err |-> "notfound"]
    ELSE [g |-> AddEdgeOk(g, from, to, data, weight), err |-> ""]

\* A RemoveEdge that also drops the metadata store of the edge.
RemoveEdgeCleansMeta(g, from, to) ==
    LET del(m, a, b) == IF a \in DOMAIN m THEN [m EXCEPT ![a] = MapDel(m[a], b)] ELSE m
        g1 == [g EXCEPT !.out = del(g.out, from, to), !.in = del(g.in, to, from),
                        !.edgeMeta = MapDel(g.edgeMeta, <<from, to>>)]
    IN IF g.Directed THEN g1
       ELSE [g1 EXCEPT !.out = del(g1.out, to, from), !.in = del(g1.in, from, to)]

RemoveEdge(g, from, to) ==
    LET del(m, a, b) == IF a \in DOMAIN m THEN [m EXCEPT ![a] = MapDel(m[a], b)] ELSE m
        g1 == [g EXCEPT !.out = del(g.out, from, to), !.in = del(g.in, to, from)]
    IN IF g.Directed THEN g1
       ELSE [g1 EXCEPT !.out = del(g1.out, to, from), !.in = del(g1.in, from, to)]

\* A RemoveNode that leaves the edges that point to the node in the out-index.
RemoveNodeKeepsIncoming(g, id) ==
    IF ~HasNode(g, id) THEN g
    ELSE LET outs == IF id \in DOMAIN g.out THEN DOMAIN g.out[id] ELSE {}
         IN [g EXCEPT !.nodes = MapDel(g.nodes, id),
                      !.out = MapDel(g.out, id),
                      !.in = MapDel([t \in DOMAIN g.in |->
                                       IF t \in outs THEN MapDel(g.in[t], id) ELSE g.in[t]],
                                    id)]

\* RemoveNode: the out-edges of id leave the in-index of their targets, the in-edges of
\* id leave the out-index of their sources, then id leaves the three maps.  The metadata
\* maps are not touched.
RemoveNode(g, id) ==
    IF ~HasNode(g, id) THEN g
    ELSE LET outs == IF id \in DOMAIN g.out THEN DOMAIN g.out[id] ELSE {}
             ins == IF id \in DOMAIN g.in THEN DOMAIN g.in[id] ELSE {}
         IN [g EXCEPT !.nodes = MapDel(g.nodes, id),
                      !.out = MapDel([f \in DOMAIN g.out |->
                                        IF f \in ins THEN MapDel(g.out[f], id) ELSE g.out[f]],
                                     id),
                      !.in = MapDel([t \in DOMAIN g.in |->
                                       IF t \in outs THEN MapDel(g.in[t], id) ELSE g.in[t]],
                                    id)]

HasEdge(g, from, to) == from \in DOMAIN g.out /\ to \in DOMAIN g.out[from]

GetEdge(g, from, to) == g.out[from][to]

OutEdges(g, id) == IF id \in DOMAIN g.out THEN {g.out[id][t] : t \in DOMAIN g.out[id]} ELSE {}

InEdges(g, id) == IF id \in DOMAIN g.in THEN {g.in[id][f] : f \in DOMAIN g.in[id]} ELSE {}

\* Edges of a directed graph, as (from, to) pairs.
EdgePairs(g) == {<<f, t>> : f \in DOMAIN g.out, t \in IDs} \cap
                {p \in IDs \X IDs : HasEdge(g, p[1], p[2])}

Order(g) == Cardinality(DOMAIN g.nodes)

\* Edges(): every edge once; an undirected edge in the direction the map range met first.
Edges(g) ==
    IF g.Directed THEN {{p} : p \in {q \in IDs \X IDs : HasEdge(g, q[1], q[2])}}
    ELSE {{p, <<p[2], p[1]>>} : p \in {q \in IDs \X IDs : HasEdge(g, q[1], q[2])}}

Size(g) == Cardinality(Edges(g))

\* The (from, to) keys of the out-index.
OutPairs(g) == {p \in IDs \X IDs : HasEdge(g, p[1], p[2])}

\* Edges() when the two map ranges meet the keys of the out-index in the given order:
\* an edge of an undirected graph is skipped when its reverse was taken before.
RECURSIVE edgesLoop(_, _, _, _)
edgesLoop(g, order, seen, result) ==
    IF order = <<>> THEN result
    ELSE LET p == Head(order)
         IN IF (~g.Directed /\ <<p[2], p[1]>> \in seen) \/ p \in seen
            THEN edgesLoop(g, Tail(order), seen, result)
            ELSE edgesLoop(g, Tail(order), seen \cup {p},
                           Append(result, GetEdge(g, p[1], p[2])))

EdgesIn(g, order) == edgesLoop(g, order, {}, <<>>)

\* Copy: a new graph with the nodes and both indices; it has no metadata stores.
Copy(g) ==
    [Directed |-> g.Directed,
     nodes |-> g.nodes,
     out |-> [id \in DOMAIN g.nodes |-> IF id \in DOMAIN g.out THEN g.out[id] ELSE EmptyMap],
     in |-> [id \in DOMAIN g.nodes |-> IF id \in DOMAIN g.in THEN g.in[id] ELSE EmptyMap],
     nodeMeta |-> EmptyMap,
     edgeMeta |-> EmptyMap]

\* Metadata store of a node: nil for a missing node, created lazily (empty) on the
\* first access; a store that was never created is identified with an empty one.
NodeMeta(g, id) == IF id \in DOMAIN g.nodeMeta THEN g.nodeMeta[id] ELSE EmptyMap

\* Writes back the content of a store; an empty store is dropped from the map.
PutStore(m, k, store) == IF store = EmptyMap THEN MapDel(m, k) ELSE MapPut(m, k, store)

\* Metadata store of an edge, likewise.
EdgeMeta(g, from, to) ==
    IF <<from, to>> \in DOMAIN g.edgeMeta THEN g.edgeMeta[<<from, to>>] ELSE EmptyMap

\* ------------------------------------------------------------------ api types
NodeData(label, status) == [Label |-> label, Status |-> status]

EdgeData(label) == [Label |-> label]

Statuses == {"", "pending", "ready", "running", "done", "failed", "skipped", "bogus"}

MetaKeys == {"k"}

Names == {"g"}

UpsertNode(id, label, status, meta, delete) ==
    [ID |-> id, Label |-> label, Status |-> status, Meta |-> meta, Delete |-> delete]

UpsertEdge(from, to, label, weight, meta, delete) ==
    [From |-> from, To |-> to, Label |-> label, Weight |-> weight, Meta |-> meta,
     Delete |-> delete]

UpsertResult == [NodesCreated |-> 0, NodesUpdated |-> 0, EdgesCreated |-> 0,
                 EdgesUpdated |-> 0, MetaKeysSet |-> 0, MetaKeysDeleted |-> 0]

\* The result slot of the last Manager call.
NoResult == [op |-> "none", err |-> "", id |-> 0, old |-> "", new |-> "",
             newlyReady |-> <<>>, counts |-> UpsertResult, info |-> <<>>, ids |-> <<>>,
             removed |-> <<0, 0>>, total |-> 0, more |-> FALSE]

\* Store.Set and Store.Delete over the entries of an upsert.
setMeta(store, meta) == [k \in DOMAIN store \cup DOMAIN meta |->
                            IF k \in DOMAIN meta THEN meta[k] ELSE store[k]]

deleteMeta(store, keys) == [k \in DOMAIN store \ {keys[i] : i \in DOMAIN keys} |-> store[k]]

deleteMetaCount(store, keys) ==
    Cardinality({i \in DOMAIN keys : keys[i] \in DOMAIN store
                                     /\ \A j \in 1..(i - 1) : keys[j] # keys[i]})

\* ------------------------------------------------------------------ snapshot codec
\* A metadata value: a Go int, or a float64 (what a JSON number decodes to); v is the
\* number, s the text of a value that is a string.
GoInt(n) == [type |-> "int", v |-> n, s |-> <<>>]

Float64(n) == [type |-> "float64", v |-> n, s |-> <<>>]

\* json.Marshal of a metadata value (the number's text) and json.Unmarshal into `any`.
jsonEncodeAny(v) == v.v

jsonDecodeAny(n) == Float64(n)

\* NodeData and EdgeData as JSON objects, by their field tags.
jsonEncodeNodeData(d) == [label |-> d.Label, status |-> d.Status]

jsonDecodeNodeData(j) == NodeData(j.label, j.status)

jsonEncodeEdgeData(d) == [label |-> d.Label]

jsonDecodeEdgeData(j) == EdgeData(j.label)

\* sort.Slice of the edges by (From, To); Edges() returns no key twice, so the result
\* does not depend on the sorting algorithm.
RECURSIVE sortEdges(_)
sortEdges(es) ==
    IF es = <<>> THEN <<>>
    ELSE LET i == CHOOSE j \in DOMAIN es :
                     \A k \in DOMAIN es :
                        \/ es[j].From < es[k].From
                        \/ (es[j].From = es[k].From /\ es[j].To <= es[k].To)
         IN <<es[i]>> \o sortEdges(SubSeq(es, 1, i - 1) \o SubSeq(es, i + 1, Len(es)))

\* The swap of From and To that Marshal makes on the edges of an undirected graph.
normalizeEdge(g, e) ==
    IF ~g.Directed /\ e.From > e.To THEN [e EXCEPT !.From = e.To, !.To = e.From] ELSE e

\* A Marshal that writes the edges of an undirected graph as Edges() returned them.
MarshalRaw(g, order) ==
    LET edges == sortEdges(EdgesIn(g, order))
        nodeIDs == SortedSeq(DOMAIN g.nodes)
        metaIDs == SelectSeq(nodeIDs, LAMBDA id : NodeMeta(g, id) # EmptyMap)
        metaKeys == SortedPairs({k \in DOMAIN g.edgeMeta : g.edgeMeta[k] # EmptyMap})
        entries(store) == [k \in DOMAIN store |-> jsonEncodeAny(store[k])]
    IN [version |-> 1,
        directed |-> g.Directed,
        graph |-> [nodes |-> [i \in DOMAIN nodeIDs |->
                                [id |-> nodeIDs[i],
                                 data |-> jsonEncodeNodeData(GetNode(g, nodeIDs[i]).Data)]],
                   edges |-> [i \in DOMAIN edges |->
                                [from |-> edges[i].From, to |-> edges[i].To,
                                 data |-> jsonEncodeEdgeData(edges[i].Data),
                                 weight |-> edges[i].Weight]]],
        metadata |-> [nodes |-> [i \in DOMAIN metaIDs |->
                                   [id |-> metaIDs[i],
                                    entries |-> entries(NodeMeta(g, metaIDs[i]))]],
                      edges |-> [i \in DOMAIN metaKeys |->
                                   [from |-> metaKeys[i][1], to |-> metaKeys[i][2],
                                    entries |-> entries(g.edgeMeta[metaKeys[i]])]]]]

\* Marshal with the options of Manager.Save (Graph, Meta, Schemas; no NodeIDs), when
\* Edges() meets the keys of the out-index in the given order: nodes in ID order, edges
\* normalized and sorted by (from, to), then the non-empty metadata stores of the nodes
\* that exist and every non-empty edge store.  Stores carry no schema here.
MarshalIn(g, order) ==
    LET es == EdgesIn(g, order)
        edges == sortEdges([i \in DOMAIN es |-> normalizeEdge(g, es[i])])
        nodeIDs == SortedSeq(DOMAIN g.nodes)
        metaIDs == SelectSeq(nodeIDs, LAMBDA id : NodeMeta(g, id) # EmptyMap)
        metaKeys == SortedPairs({k \in DOMAIN g.edgeMeta : g.edgeMeta[k] # EmptyMap})
        entries(store) == [k \in DOMAIN store |-> jsonEncodeAny(store[k])]
    IN [version |-> 1,
        directed |-> g.Directed,
        graph |-> [nodes |-> [i \in DOMAIN nodeIDs |->
                                [id |-> nodeIDs[i],
                                 data |-> jsonEncodeNodeData(GetNode(g, nodeIDs[i]).Data)]],
                   edges |-> [i \in DOMAIN edges |->
                                [from |-> edges[i].From, to |-> edges[i].To,
                                 data |-> jsonEncodeEdgeData(edges[i].Data),
                                 weight |-> edges[i].Weight]]],
        metadata |-> [nodes |-> [i \in DOMAIN metaIDs |->
                                   [id |-> metaIDs[i],
                                    entries |-> entries(NodeMeta(g, metaIDs[i]))]],
                      edges |-> [i \in DOMAIN metaKeys |->
                                   [from |-> metaKeys[i][1], to |-> metaKeys[i][2],
                                    entries |-> entries(g.edgeMeta[metaKeys[i]])]]]]

\* Marshal under one of the orders in which the out-index may be ranged over.
Marshal(g) == MarshalIn(g, SortedPairs(OutPairs(g)))

RECURSIVE unmarshalNodes(_, _)
unmarshalNodes(g, ns) ==
    IF ns = <<>> THEN g
    ELSE unmarshalNodes(AddNode(g, Head(ns).id, jsonDecodeNodeData(Head(ns).data)), Tail(ns))

\* st = [g, err]; the first AddEdge that fails aborts the decode.
RECURSIVE unmarshalEdges(_, _)
unmarshalEdges(st, es) ==
    IF es = <<>> \/ st.err # "" THEN st
    ELSE LET e == Head(es)
         IN unmarshalEdges(AddEdge(st.g, e.from, e.to, jsonDecodeEdgeData(e.data), e.weight),
                           Tail(es))

decodeEntries(entries) == [k \in DOMAIN entries |-> jsonDecodeAny(entries[k])]

\* A decode that does not replay the metadata of the nodes.
unmarshalNodeMetaSkip(g, ms) == g

RECURSIVE unmarshalNodeMeta(_, _)
unmarshalNodeMeta(g, ms) ==
    IF ms = <<>> THEN g
    ELSE LET nm == Head(ms)
             g1 == IF ~HasNode(g, nm.id) THEN g
                   ELSE [g EXCEPT !.nodeMeta =
                            PutStore(g.nodeMeta, nm.id,
                                     setMeta(NodeMeta(g, nm.id), decodeEntries(nm.entries)))]
         IN unmarshalNodeMeta(g1, Tail(ms))

RECURSIVE unmarshalEdgeMeta(_, _)
unmarshalEdgeMeta(g, ms) ==
    IF ms = <<>> THEN g
    ELSE LET em == Head(ms)
             g1 == IF ~HasEdge(g, em.from, em.to) THEN g
                   ELSE [g EXCEPT !.edgeMeta =
                            PutStore(g.edgeMeta, <<em.from, em.to>>,
                                     setMeta(EdgeMeta(g, em.from, em.to),
                                             decodeEntries(em.entries)))]
         IN unmarshalEdgeMeta(g1, Tail(ms))

\* An Unmarshal that does not look at the version.
UnmarshalAnyVersion(snap) ==
    LET st == unmarshalEdges([g |-> unmarshalNodes(NewGraph(snap.directed), snap.graph.nodes),
                              err |-> ""], snap.graph.edges)
    IN IF st.err # "" THEN [g |-> NewGraph(TRUE), err |-> "unmarshal edge"]
       ELSE [g |-> unmarshalEdgeMeta(unmarshalNodeMeta(st.g, snap.metadata.nodes),
                                     snap.metadata.edges),
             err |-> ""]

\* ApplyMeta on a document that parses: the metadata section replayed on g; returns
\* [g, err].
ApplyMeta(snap, g) ==
    [g |-> unmarshalEdgeMeta(unmarshalNodeMeta(g, snap.metadata.nodes), snap.metadata.edges),
     err |-> ""]

\* Unmarshal returns [g, err]; with an error there is no graph (g is a placeholder).
Unmarshal(snap) ==
    IF snap.version # 1 THEN [g |-> NewGraph(TRUE), err |-> "unsupported version"]
    ELSE LET st == unmarshalEdges([g |-> unmarshalNodes(NewGraph(snap.directed),
                                                        snap.graph.nodes),
                                   err |-> ""], snap.graph.edges)
         IN IF st.err # "" THEN [g |-> NewGraph(TRUE), err |-> "unmarshal edge"]
            ELSE [g |-> unmarshalEdgeMeta(unmarshalNodeMeta(st.g, snap.metadata.nodes),
                                          snap.metadata.edges),
                  err |-> ""]

\* ------------------------------------------------------------------ Manager.Upsert
\* An entry of req.Nodes that counts an existing node as updated whether or not a
\* field changes.
UpsertOneNodeAlwaysCounts(st, un) ==
    IF un.ID = 0 THEN st
    ELSE
      LET g == st.g
          res == st.res
          exists == HasNode(g, un.ID)
          nd == IF exists THEN GetNode(g, un.ID).Data ELSE NodeData("", "")
          label == IF un.Label # "" /\ un.Label # nd.Label THEN un.Label ELSE nd.Label
          status == IF un.Status # "" /\ un.Status # nd.Status THEN un.Status ELSE nd.Status
          g1 == IF exists THEN AddNode(g, un.ID, NodeData(label, status))
                ELSE AddNode(g, un.ID, NodeData(un.Label, un.Status))
          res1 == IF exists THEN [res EXCEPT !.NodesUpdated = @ + 1]
                  ELSE [res EXCEPT !.NodesCreated = @ + 1]
          s1 == setMeta(NodeMeta(g1, un.ID), un.Meta)
          s2 == deleteMeta(s1, un.Delete)
      IN [g |-> [g1 EXCEPT !.nodeMeta = PutStore(g1.nodeMeta, un.ID, s2)],
          res |-> [res1 EXCEPT !.MetaKeysSet = @ + Cardinality(DOMAIN un.Meta),
                               !.MetaKeysDeleted = @ + deleteMetaCount(s1, un.Delete)]]

\* An entry of req.Nodes that leaves the status of a done or skipped node alone.
UpsertOneNodeKeepsTerminal(st, un) ==
    IF un.ID = 0 THEN st
    ELSE
      LET g == st.g
          res == st.res
          exists == HasNode(g, un.ID)
          nd == IF exists THEN GetNode(g, un.ID).Data ELSE NodeData("", "")
          label == IF un.Label # "" /\ un.Label # nd.Label THEN un.Label ELSE nd.Label
          status == IF /\ un.Status # "" /\ un.Status # nd.Status
                       /\ nd.Status \notin {"done", "skipped"}
                    THEN un.Status ELSE nd.Status
          changed == label # nd.Label \/ status # nd.Status
          g1 == IF exists
                THEN IF changed THEN AddNode(g, un.ID, NodeData(label, status)) ELSE g
                ELSE AddNode(g, un.ID, NodeData(un.Label, un.Status))
          res1 == IF exists
                  THEN IF changed THEN [res EXCEPT !.NodesUpdated = @ + 1] ELSE res
                  ELSE [res EXCEPT !.NodesCreated = @ + 1]
          s1 == setMeta(NodeMeta(g1, un.ID), un.Meta)
          s2 == deleteMeta(s1, un.Delete)
      IN [g |-> [g1 EXCEPT !.nodeMeta = PutStore(g1.nodeMeta, un.ID, s2)],
          res |-> [res1 EXCEPT !.MetaKeysSet = @ + Cardinality(DOMAIN un.Meta),
                               !.MetaKeysDeleted = @ + deleteMetaCount(s1, un.Delete)]]

\* One entry of req.Nodes; st = [g, res].
UpsertOneNode(st, un) ==
    IF un.ID = 0 THEN st
    ELSE
      LET g == st.g
          res == st.res
          exists == HasNode(g, un.ID)
          nd == IF exists THEN GetNode(g, un.ID).Data ELSE NodeData("", "")
          label == IF un.Label # "" /\ un.Label # nd.Label THEN un.Label ELSE nd.Label
          status == IF un.Status # "" /\ un.Status # nd.Status THEN un.Status ELSE nd.Status
          changed == label # nd.Label \/ status # nd.Status
          g1 == IF exists
                THEN IF changed THEN AddNode(g, un.ID, NodeData(label, status)) ELSE g
                ELSE AddNode(g, un.ID, NodeData(un.Label, un.Status))
          res1 == IF exists
                  THEN IF changed THEN [res EXCEPT !.NodesUpdated = @ + 1] ELSE res
                  ELSE [res EXCEPT !.NodesCreated = @ + 1]
          s1 == setMeta(NodeMeta(g1, un.ID), un.Meta)
          s2 == deleteMeta(s1, un.Delete)
      IN [g |-> [g1 EXCEPT !.nodeMeta = PutStore(g1.nodeMeta, un.ID, s2)],
          res |-> [res1 EXCEPT !.MetaKeysSet = @ + Cardinality(DOMAIN un.Meta),
                               !.MetaKeysDeleted = @ + deleteMetaCount(s1, un.Delete)]]

\* One entry of req.Edges; st = [g, res].
UpsertOneEdge(st, ue) ==
    IF ue.From = 0 \/ ue.To = 0 THEN st
    ELSE
      LET g == st.g
          res == st.res
          g1 == IF HasNode(g, ue.From) THEN g ELSE AddNode(g, ue.From, NodeData("", ""))
          c1 == IF HasNode(g, ue.From) THEN 0 ELSE 1
          g2 == IF HasNode(g1, ue.To) THEN g1 ELSE AddNode(g1, ue.To, NodeData("", ""))
          c2 == IF HasNode(g1, ue.To) THEN 0 ELSE 1
          resN == [res EXCEPT !.NodesCreated = @ + c1 + c2]
          st3 == IF HasEdge(g2, ue.From, ue.To)
                 THEN LET e == GetEdge(g2, ue.From, ue.To)
                          lbl == IF ue.Label # "" /\ ue.Label # e.Data.Label
                                 THEN ue.Label ELSE e.Data.Label
                          w == IF ue.Weight # 0 /\ ue.Weight # e.Weight
                               THEN ue.Weight ELSE e.Weight
                          changed == lbl # e.Data.Label \/ w # e.Weight
                      IN IF changed
                         THEN [g |-> AddEdgeOk(RemoveEdge(g2, ue.From, ue.To),
                                               ue.From, ue.To, EdgeData(lbl), w),
                               res |-> [resN EXCEPT !.EdgesUpdated = @ + 1]]
                         ELSE [g |-> g2, res |-> resN]
                 ELSE [g |-> AddEdgeOk(g2, ue.From, ue.To, EdgeData(ue.Label), ue.Weight),
                       res |-> [resN EXCEPT !.EdgesCreated = @ + 1]]
          s1 == setMeta(EdgeMeta(st3.g, ue.From, ue.To), ue.Meta)
          s2 == deleteMeta(s1, ue.Delete)
      IN [g |-> [st3.g EXCEPT !.edgeMeta = PutStore(st3.g.edgeMeta, <<ue.From, ue.To>>, s2)],
          res |-> [st3.res EXCEPT !.MetaKeysSet = @ + Cardinality(DOMAIN ue.Meta),
                                  !.MetaKeysDeleted = @ + deleteMetaCount(s1, ue.Delete)]]

RECURSIVE UpsertNodes(_, _)
UpsertNodes(st, nodes) ==
    IF nodes = <<>> THEN st ELSE UpsertNodes(UpsertOneNode(st, Head(nodes)), Tail(nodes))

RECURSIVE UpsertEdges(_, _)
UpsertEdges(st, edges) ==
    IF edges = <<>> THEN st ELSE UpsertEdges(UpsertOneEdge(st, Head(edges)), Tail(edges))

\* An Upsert that counts every listed node with an ID as created.
UpsertApplyCountsListed(g, req) ==
    LET st == UpsertEdges(UpsertNodes([g |-> g, res |-> UpsertResult], req.Nodes), req.Edges)
        listed == Len(SelectSeq(req.Nodes, LAMBDA un : un.ID # 0))
    IN [st EXCEPT !.res.NodesCreated = @ + listed - UpsertNodes([g |-> g, res |-> UpsertResult],
                                                                req.Nodes).res.NodesCreated]

UpsertApply(g, req) ==
    UpsertEdges(UpsertNodes([g |-> g, res |-> UpsertResult], req.Nodes), req.Edges)

\* Manager.Upsert as a function of the cache gs and the request.
UpsertCall(gs, name, req) ==
    IF name \notin DOMAIN gs
    THEN [graphs |-> gs, res |-> [NoResult EXCEPT !.op = "upsert", !.err = "notopen"]]
    ELSE LET st == UpsertApply(gs[name], req)
         IN [graphs |-> [gs EXCEPT ![name] = st.g],
             res |-> [NoResult EXCEPT !.op = "upsert", !.counts = st.res]]

Upsert(name, req) ==
    LET r == UpsertCall(graphs, name, req)
    IN /\ graphs' = r.graphs
       /\ mres' = r.res

\* ------------------------------------------------------------------ Manager.Open
graphInfo(name, g) ==
    [Name |-> name, NodeCount |-> Order(g), EdgeCount |-> Size(g), Directed |-> g.Directed]

\* The type switch of fixupNodeData never matches: Unmarshal decodes straight into
\* NodeData and EdgeData.
fixupNodeData(g) == g

\* An Open that goes to the disk even when the name is cached.
OpenCallReload(gs, fs, name) ==
    IF name \notin DOMAIN fs
    THEN [graphs |-> MapPut(gs, name, NewGraph(TRUE)),
          res |-> [NoResult EXCEPT !.op = "open",
                                   !.info = <<graphInfo(name, NewGraph(TRUE))>>]]
    ELSE LET r == Unmarshal(fs[name])
         IN IF r.err # ""
            THEN [graphs |-> gs, res |-> [NoResult EXCEPT !.op = "open", !.err = r.err]]
            ELSE [graphs |-> MapPut(gs, name, fixupNodeData(r.g)),
                  res |-> [NoResult EXCEPT !.op = "open",
                                           !.info = <<graphInfo(name, fixupNodeData(r.g))>>]]

\* Manager.Open as a function of the cache gs and the directory fs.
OpenCall(gs, fs, name) ==
    IF name \in DOMAIN gs
    THEN [graphs |-> gs,
          res |-> [NoResult EXCEPT !.op = "open", !.info = <<graphInfo(name, gs[name])>>]]
    ELSE IF name \notin DOMAIN fs
    THEN [graphs |-> MapPut(gs, name, NewGraph(TRUE)),
          res |-> [NoResult EXCEPT !.op = "open",
                                   !.info = <<graphInfo(name, NewGraph(TRUE))>>]]
    ELSE LET r == Unmarshal(fs[name])
         IN IF r.err # ""
            THEN [graphs |-> gs, res |-> [NoResult EXCEPT !.op = "open", !.err = r.err]]
            ELSE [graphs |-> MapPut(gs, name, fixupNodeData(r.g)),
                  res |-> [NoResult EXCEPT !.op = "open",
                                           !.info = <<graphInfo(name, fixupNodeData(r.g))>>]]

Open(name) ==
    LET r == OpenCall(graphs, files, name)
    IN /\ graphs' = r.graphs
       /\ mres' = r.res

\* ------------------------------------------------------------------ Manager.Transition
\* A table without the retry entry failed -> pending.
validTransitionsApiNoRetry ==
    [s \in {"", "pending", "ready", "running"} |->
        CASE s = "" -> {"pending", "ready"}
          [] s = "pending" -> {"ready", "skipped"}
          [] s = "ready" -> {"running", "skipped"}
          [] s = "running" -> {"done", "failed"}]

validTransitionsApi ==
    [s \in {"", "pending", "ready", "running", "failed"} |->
        CASE s = "" -> {"pending", "ready"}
          [] s = "pending" -> {"ready", "skipped"}
          [] s = "ready" -> {"running", "skipped"}
          [] s = "running" -> {"done", "failed"}
          [] s = "failed" -> {"pending"}]

TransitionAllowed(oldStatus, newStatus) ==
    oldStatus \in DOMAIN validTransitionsApi /\ newStatus \in validTransitionsApi[oldStatus]

\* A check that is satisfied by one done dependency.
AllDoneAny(g, id) ==
    \E inEdge \in InEdges(g, id) :
        HasNode(g, inEdge.From) /\ GetNode(g, inEdge.From).Data.Status = "done"

\* Whether every incoming dependency of node id is done.
AllDone(g, id) ==
    \A inEdge \in InEdges(g, id) :
        HasNode(g, inEdge.From) /\ GetNode(g, inEdge.From).Data.Status = "done"

\* The auto-ready loop over the out-edges of the node, ranged in the order `order`
\* (a sequence of edge targets); st = [g, ready].
RECURSIVE Propagate(_, _)
Propagate(st, order) ==
    IF order = <<>> THEN st
    ELSE LET d == Head(order)
             g == st.g
             skip == ~HasNode(g, d) \/ GetNode(g, d).Data.Status # "pending"
         IN IF ~skip /\ AllDone(g, d)
            THEN Propagate([g |-> AddNode(g, d, [GetNode(g, d).Data EXCEPT !.Status = "ready"]),
                            ready |-> Append(st.ready, d)], Tail(order))
            ELSE Propagate(st, Tail(order))

\* The orders in which the out-edges of the node may be ranged over (a Go map).
OutOrders(gs, name, id, newStatus) ==
    IF name \in DOMAIN gs /\ newStatus = "done"
    THEN Perms({e.To : e \in OutEdges(gs[name], id)})
    ELSE {<<>>}

\* Manager.Transition as a function of the cache gs and the request: the cache and
\* the result it leaves.
TransitionCall(gs, name, id, newStatus, order) ==
    IF name \notin DOMAIN gs
    THEN [graphs |-> gs, res |-> [NoResult EXCEPT !.op = "transition", !.err = "notopen"]]
    ELSE
      LET g == gs[name] IN
      IF ~HasNode(g, id)
      THEN [graphs |-> gs, res |-> [NoResult EXCEPT !.op = "transition", !.err = "notfound"]]
      ELSE
        LET oldStatus == GetNode(g, id).Data.Status IN
        IF ~TransitionAllowed(oldStatus, newStatus)
        THEN [graphs |-> gs,
              res |-> [NoResult EXCEPT !.op = "transition", !.err = "invalid"]]
        ELSE
          LET g1 == AddNode(g, id, [GetNode(g, id).Data EXCEPT !.Status = newStatus])
              st == IF newStatus = "done"
                    THEN Propagate([g |-> g1, ready |-> <<>>], order)
                    ELSE [g |-> g1, ready |-> <<>>]
          IN [graphs |-> [gs EXCEPT ![name] = st.g],
              res |-> [NoResult EXCEPT !.op = "transition", !.id = id, !.old = oldStatus,
                                       !.new = newStatus, !.newlyReady = st.ready]]

Transition(name, id, newStatus) ==
    \E order \in OutOrders(graphs, name, id, newStatus) :
        LET r == TransitionCall(graphs, name, id, newStatus, order)
        IN /\ graphs' = r.graphs
           /\ mres' = r.res

\* ------------------------------------------------------------------ Manager: disk
\* A Save that writes an empty graph for a name that is not open.
SaveCallCreates(gs, fs, name) ==
    [files |-> MapPut(fs, name, Marshal(IF name \in DOMAIN gs THEN gs[name]
                                        ELSE NewGraph(TRUE))),
     res |-> [NoResult EXCEPT !.op = "save"]]

\* Save returns [files, res]; the cache is not touched.
SaveCall(gs, fs, name) ==
    IF name \notin DOMAIN gs
    THEN [files |-> fs, res |-> [NoResult EXCEPT !.op = "save", !.err = "notopen"]]
    ELSE [files |-> MapPut(fs, name, Marshal(gs[name])),
          res |-> [NoResult EXCEPT !.op = "save"]]

\* A Delete that removes the file and leaves the cache entry.
DeleteCallKeepCache(gs, fs, name) ==
    [graphs |-> gs, files |-> MapDel(fs, name), res |-> [NoResult EXCEPT !.op = "delete"]]

\* Delete returns [graphs, files, res]; a missing file is not an error.
DeleteCall(gs, fs, name) ==
    [graphs |-> MapDel(gs, name), files |-> MapDel(fs, name),
     res |-> [NoResult EXCEPT !.op = "delete"]]

\* The graph names in the order in which ReadDir lists their files.
NameOrder == <<"g", "h">>

\* A List that always peeks at the file.
ListCallPeekOnly(gs, fs) ==
    LET names == SelectSeq(NameOrder, LAMBDA n : n \in DOMAIN fs)
    IN [NoResult EXCEPT !.op = "list",
                        !.info = [i \in DOMAIN names |->
                                    [Name |-> names[i],
                                     NodeCount |-> Len(fs[names[i]].graph.nodes),
                                     EdgeCount |-> Len(fs[names[i]].graph.edges),
                                     Directed |-> fs[names[i]].directed]]]

\* List: one entry per file, from the cached graph when there is one, from a peek at
\* the file otherwise.
ListCall(gs, fs) ==
    LET names == SelectSeq(NameOrder, LAMBDA n : n \in DOMAIN fs)
        peek(n) == [Name |-> n, NodeCount |-> Len(fs[n].graph.nodes),
                    EdgeCount |-> Len(fs[n].graph.edges), Directed |-> fs[n].directed]
    IN [NoResult EXCEPT !.op = "list",
                        !.info = [i \in DOMAIN names |->
                                    IF names[i] \in DOMAIN gs
                                    THEN graphInfo(names[i], gs[names[i]])
                                    ELSE peek(names[i])]]

\* Summary: the graph info part of the statistics.
SummaryCall(gs, name) ==
    IF name \notin DOMAIN gs THEN [NoResult EXCEPT !.op = "summary", !.err = "notopen"]
    ELSE [NoResult EXCEPT !.op = "summary", !.info = <<graphInfo(name, gs[name])>>]

\* ReadNodes with an empty request (every node, in ID order).
ReadNodesCall(gs, name) ==
    IF name \notin DOMAIN gs THEN [NoResult EXCEPT !.op = "read", !.err = "notopen"]
    ELSE [NoResult EXCEPT !.op = "read", !.ids = SortedSeq(DOMAIN gs[name].nodes)]

\* st = [g, n]: the graph and the number of nodes (edges) removed so far.
RECURSIVE removeNodes(_, _)
removeNodes(st, ids) ==
    IF ids = <<>> THEN st
    ELSE removeNodes(IF HasNode(st.g, Head(ids))
                     THEN [g |-> RemoveNode(st.g, Head(ids)), n |-> st.n + 1]
                     ELSE st, Tail(ids))

RECURSIVE removeEdges(_, _)
removeEdges(st, es) ==
    IF es = <<>> THEN st
    ELSE removeEdges(IF HasEdge(st.g, Head(es)[1], Head(es)[2])
                     THEN [g |-> RemoveEdge(st.g, Head(es)[1], Head(es)[2]), n |-> st.n + 1]
                     ELSE st, Tail(es))

\* Remove returns [graphs, res]; req = [Graph, Nodes, Edges].
RemoveCall(gs, req) ==
    IF req.Graph \notin DOMAIN gs
    THEN [graphs |-> gs, res |-> [NoResult EXCEPT !.op = "remove", !.err = "notopen"]]
    ELSE LET s1 == removeNodes([g |-> gs[req.Graph], n |-> 0], req.Nodes)
             s2 == removeEdges([g |-> s1.g, n |-> 0], req.Edges)
         IN [graphs |-> [gs EXCEPT ![req.Graph] = s2.g],
             res |-> [NoResult EXCEPT !.op = "remove", !.removed = <<s1.n, s2.n>>]]

\* ------------------------------------------------------------------ filters
\* Values of type any besides the numbers: strings (as sequences of characters),
\* booleans and nil.
GoString(chars) == [type |-> "string", v |-> 0, s |-> chars]

GoBool(b) == [type |-> "bool", v |-> IF b THEN 1 ELSE 0, s |-> <<>>]

GoNil == [type |-> "nil", v |-> 0, s |-> <<>>]

DigitChars == <<"0", "1", "2", "3", "4", "5", "6", "7", "8", "9">>

\* The decimal text of a natural number.
RECURSIVE Digits(_)
Digits(n) ==
    IF n < 10 THEN <<DigitChars[n + 1]>>
    ELSE Digits(n \div 10) \o <<DigitChars[(n % 10) + 1]>>

\* fmt.Sprintf("%v", v).
Sprintf(v) ==
    CASE v.type \in {"int", "float64"} -> Digits(v.v)
      [] v.type = "string" -> v.s
      [] v.type = "bool" -> IF v.v = 1 THEN <<"t", "r", "u", "e">>
                            ELSE <<"f", "a", "l", "s", "e">>
      [] v.type = "nil" -> <<"<", "n", "i", "l", ">">>

\* strings.Contains.
Contains(str, sub) ==
    \E i \in 0..(Len(str) - Len(sub)) : SubSeq(str, i + 1, i + Len(sub)) = sub

\* toFloat64 returns [f, ok].
toFloat64(v) ==
    IF v.type \in {"int", "float64"} THEN [f |-> v.v, ok |-> TRUE] ELSE [f |-> 0, ok |-> FALSE]

\* compareFloat: -2 when the comparison is impossible, otherwise -1, 0 or 1.
compareFloat(a, b, found) ==
    IF ~found \/ ~toFloat64(a).ok \/ ~toFloat64(b).ok THEN 0 - 2
    ELSE IF toFloat64(a).f < toFloat64(b).f THEN 0 - 1
    ELSE IF toFloat64(a).f > toFloat64(b).f THEN 1
    ELSE 0

\* A metadata store as matchFilter gets it: nil, or its entries.
FilterStore(isNil, entries) == [isNil |-> isNil, entries |-> entries]

MetaFilter(key, op, value) == [Key |-> key, Op |-> op, Value |-> value]

\* The value that the key of a filter resolves to: [val, found].
resolveKey(store, data, key) ==
    CASE key = "status" -> [val |-> GoString(data.Status), found |-> TRUE]
      [] key = "label" -> [val |-> GoString(data.Label), found |-> TRUE]
      [] OTHER -> IF ~store.isNil /\ key \in DOMAIN store.entries
                  THEN [val |-> store.entries[key], found |-> TRUE]
                  ELSE [val |-> GoNil, found |-> FALSE]

\* The switch on f.Op, on the resolved value r.
matchOp(r, f) ==
    CASE f.Op = "exists" -> r.found
      [] f.Op = "eq" -> r.found /\ Sprintf(r.val) = Sprintf(f.Value)
      [] f.Op = "neq" -> ~r.found \/ Sprintf(r.val) # Sprintf(f.Value)
      [] f.Op = "contains" -> r.found /\ Contains(Sprintf(r.val), Sprintf(f.Value))
      [] f.Op = "gt" -> compareFloat(r.val, f.Value, r.found) > 0
      [] f.Op = "gte" -> compareFloat(r.val, f.Value, r.found) >= 0
      [] f.Op = "lt" -> compareFloat(r.val, f.Value, r.found) < 0
      [] f.Op = "lte" -> compareFloat(r.val, f.Value, r.found) <= 0
      [] OTHER -> FALSE

matchFilter(store, data, f) == matchOp(resolveKey(store, data, f.Key), f)

\* ------------------------------------------------------------------ Manager.ReadNodes
defaultLimit == 100

\* The characters of the labels and statuses that the read requests filter on.
Chars(str) ==
    CASE str = "pending" -> <<"p", "e", "n", "d", "i", "n", "g">>
      [] str = "done" -> <<"d", "o", "n", "e">>
      [] str = "A" -> <<"A">>
      [] OTHER -> <<>>

\* matchesFilters: true without filters, false for a missing node, otherwise the
\* conjunction of the filters on the node's data and metadata store.
matchesFilters(g, id, filters) ==
    IF filters = <<>> THEN TRUE
    ELSE IF ~HasNode(g, id) THEN FALSE
    ELSE \A i \in DOMAIN filters :
            matchFilter(FilterStore(FALSE, NodeMeta(g, id)),
                        NodeData(Chars(GetNode(g, id).Data.Label),
                                 Chars(GetNode(g, id).Data.Status)),
                        filters[i])

\* sort.Strings on a slice of IDs, which may hold an ID more than once.
RECURSIVE sortStrings(_)
sortStrings(ids) ==
    IF ids = <<>> THEN <<>>
    ELSE LET i == CHOOSE k \in DOMAIN ids : \A j \in DOMAIN ids : ids[k] <= ids[j]
         IN <<ids[i]>> \o sortStrings(SubSeq(ids, 1, i - 1) \o SubSeq(ids, i + 1, Len(ids)))

ReadNodesRequest(ids, filters, limit, offset) ==
    [IDs |-> ids, Filters |-> filters, Limit |-> limit, Offset |-> offset]

\* The page of the matched IDs, Total and HasMore.
Paginate(matched, req) ==
    LET total == Len(matched)
        limit == IF req.Limit <= 0 THEN defaultLimit ELSE req.Limit
        offset == IF req.Offset > total THEN total ELSE req.Offset
        end == IF offset + limit > total THEN total ELSE offset + limit
    IN [ids |-> SubSeq(matched, offset + 1, end), Total |-> total, HasMore |-> end < total]

\* A ReadNodes that returns the matched nodes in the order of the candidates.
ReadNodesUnsorted(g, req) ==
    LET ids == IF Len(req.IDs) > 0 THEN SelectSeq(req.IDs, LAMBDA id : HasNode(g, id))
               ELSE SortedSeq(DOMAIN g.nodes)
    IN Paginate(SelectSeq(ids, LAMBDA id : matchesFilters(g, id, req.Filters)), req)

\* ReadNodes on an open graph, for a request with an offset of 0 or more: the IDs of
\* the nodes of the page, Total and HasMore.
ReadNodes(g, req) ==
    LET ids == IF Len(req.IDs) > 0 THEN SelectSeq(req.IDs, LAMBDA id : HasNode(g, id))
               ELSE SortedSeq(DOMAIN g.nodes)
        matched == sortStrings(SelectSeq(ids, LAMBDA id : matchesFilters(g, id, req.Filters)))
    IN Paginate(matched, req)

NoFilter == [store |-> FilterStore(TRUE, EmptyMap), data |-> NodeData(<<>>, <<>>),
             f |-> MetaFilter("", "", GoNil)]

\* ------------------------------------------------------------------ SpecMgr
MgrInit ==
    /\ graphs = EmptyMap
    /\ mres = NoResult

MgrOpen ==
    /\ \E name \in Names : Open(name)
    /\ UNCHANGED <<tvars, rvars, xvars>>

MgrUpsertNode ==
    /\ \E name \in Names, id \in 0..NumNodes, status \in Statuses :
          Upsert(name, [Nodes |-> <<UpsertNode(id, "", status, EmptyMap, <<>>)>>,
                        Edges |-> <<>>])
    /\ UNCHANGED <<tvars, rvars, xvars>>

MgrUpsertEdge ==
    /\ \E name \in Names, from \in IDs, to \in IDs :
          /\ from < to
          /\ Upsert(name, [Nodes |-> <<>>,
                           Edges |-> <<UpsertEdge(from, to, "", 0, EmptyMap, <<>>)>>])
    /\ UNCHANGED <<tvars, rvars, xvars>>

MgrTransition ==
    /\ \E name \in Names, id \in IDs, status \in Statuses : Transition(name, id, status)
    /\ UNCHANGED <<tvars, rvars, xvars>>

\* ------------------------------------------------------------------ TaskGraph
Task(state) == [State |-> state]

TaskStates == {"Pending", "Ready", "Running", "Done", "Failed", "Skipped"}

\* A table in which a running task cannot be marked done.
validTransitionsNoDone ==
    [s \in {"Pending", "Ready", "Running"} |->
        CASE s = "Pending" -> {"Ready", "Skipped"}
          [] s = "Ready" -> {"Running", "Skipped"}
          [] s = "Running" -> {"Failed"}]

validTransitions ==
    [s \in {"Pending", "Ready", "Running"} |->
        CASE s = "Pending" -> {"Ready", "Skipped"}
          [] s = "Ready" -> {"Running", "Skipped"}
          [] s = "Running" -> {"Done", "Failed"}]

\* validTransitions[state], the nil slice for a state that is no key of the map.
AllowedFrom(state) == IF state \in DOMAIN validTransitions THEN validTransitions[state] ELSE {}

State(g, id) == GetNode(g, id).Data.State

allDepsDone(g, id) ==
    \A e \in InEdges(g, id) : HasNode(g, e.From) /\ State(g, e.From) = "Done"

\* The loop of readyLocked over the nodes still to visit; st = [g, ready].
\* One iteration of the loop of readyLocked on task id; st = [g, ready].
readyVisit(st, id) ==
    LET promote == State(st.g, id) = "Pending" /\ allDepsDone(st.g, id)
        isReady == promote \/ State(st.g, id) = "Ready"
    IN [g |-> IF promote THEN AddNode(st.g, id, Task("Ready")) ELSE st.g,
        ready |-> IF isReady THEN Append(st.ready, id) ELSE st.ready]

\* The loop of readyLocked over the nodes still to visit.
RECURSIVE readyLoop(_, _)
readyLoop(st, nodes) ==
    IF nodes = <<>> THEN st
    ELSE \* st is bound to its value, so that one iteration evaluates it once
         LET next == CHOOSE r \in {readyVisit(s, Head(nodes)) : s \in {st}} : TRUE
         IN readyLoop(next, Tail(nodes))

\* The elements of a sequence in the opposite order.
Reverse(seq) == [i \in 1..Len(seq) |-> seq[Len(seq) + 1 - i]]

\* A readyLocked that visits the nodes in descending ID order.
readyLockedDescending(g) ==
    readyLoop([g |-> g, ready |-> <<>>], Reverse(SortedSeq(DOMAIN g.nodes)))

readyLocked(g) == readyLoop([g |-> g, ready |-> <<>>], SortedSeq(DOMAIN g.nodes))

\* A transition that stores the new state before it validates it.
transitionLockedEager(g, id, newState) ==
    IF ~HasNode(g, id) THEN [g |-> g, err |-> "notfound"]
    ELSE [g |-> AddNode(g, id, Task(newState)),
          err |-> IF newState \in AllowedFrom(State(g, id)) THEN "" ELSE "invalid"]

transitionLocked(g, id, newState) ==
    IF ~HasNode(g, id) THEN [g |-> g, err |-> "notfound"]
    ELSE IF newState \in AllowedFrom(State(g, id))
         THEN [g |-> AddNode(g, id, Task(newState)), err |-> ""]
         ELSE [g |-> g, err |-> "invalid"]

\* A semaphore with one slot too many.
SemCapPlus(concurrency) == IF concurrency < 1 THEN 1 ELSE concurrency + 1

\* The capacity of the semaphore of Run for a concurrency argument.
SemCap(concurrency) == IF concurrency < 1 THEN 1 ELSE concurrency

NilResult == [kind |-> "nil", errs |-> <<>>]

\* A result that keeps only the first of the collected errors.
RunResultFirst(errs) ==
    IF Len(errs) > 0 THEN [kind |-> "join", errs |-> <<Head(errs)>>] ELSE NilResult

\* What Run returns after its loop: the join of the collected errors, or nil.
RunResult(errs) ==
    IF Len(errs) > 0 THEN [kind |-> "join", errs |-> errs] ELSE NilResult

NoCall == [op |-> "none", err |-> "", ready |-> <<>>]

TgInit ==
    /\ tg = NewGraph(TRUE)
    /\ tres = NoCall
    /\ pc = "idle"
    /\ concArg = 0
    /\ ready = <<>>
    /\ idx = 0
    /\ sem = 0
    /\ wg = 0
    /\ wpc = [t \in IDs |-> "idle"]
    /\ taskErrors = <<>>
    /\ cancelled = FALSE
    /\ ret = [kind |-> "none", errs |-> <<>>]
    /\ calls = [t \in IDs |-> 0]
    /\ fnErrs = {}
    /\ tg0 = NewGraph(TRUE)

\* ---- the external operations
AddTask(id) ==
    /\ tg' = AddNode(tg, id, Task("Pending"))
    /\ tres' = [NoCall EXCEPT !.op = "AddTask"]

\* AddDependency(from, to): from depends on to; the edge is to -> from.
AddDependency(from, to) ==
    LET r == AddEdge(tg, to, from, "", 0)
    IN /\ tg' = r.g
       /\ tres' = [NoCall EXCEPT !.op = "AddDependency", !.err = r.err]

Ready ==
    LET r == readyLocked(tg)
    IN /\ tg' = r.g
       /\ tres' = [NoCall EXCEPT !.op = "Ready", !.ready = r.ready]

TgTransition(id, newState) ==
    LET r == transitionLocked(tg, id, newState)
    IN /\ tg' = r.g
       /\ tres' = [NoCall EXCEPT !.op = "Transition", !.err = r.err]

\* ---- Run: the calling goroutine
Advance ==
    /\ idx' = idx + 1
    /\ pc' = IF idx + 1 > Len(ready) THEN "wait" ELSE "ctx"

RunCollect ==
    /\ pc = "collect"
    /\ LET r == readyLocked(tg)
       IN /\ tg' = r.g
          /\ ready' = r.ready
          /\ IF r.ready = <<>>
             THEN pc' = "after" /\ UNCHANGED <<idx, sem>>
             ELSE pc' = "ctx" /\ idx' = 1 /\ sem' = 0
    /\ UNCHANGED <<mvars, xvars>>
    /\ UNCHANGED <<tres, concArg, wg, wpc, taskErrors, cancelled, ret, calls, fnErrs, tg0>>

\* A loop that dispatches without looking at the context.
RunCheckCtxBlind ==
    /\ pc = "ctx"
    /\ pc' = "trans"
    /\ UNCHANGED <<mvars, xvars>>
    /\ UNCHANGED <<tg, tres, concArg, ready, idx, sem, wg, wpc, taskErrors, cancelled, ret,
                   calls, fnErrs, tg0>>

RunCheckCtx ==
    /\ pc = "ctx"
    /\ IF cancelled
       THEN pc' = "returned" /\ ret' = [kind |-> "ctx", errs |-> <<>>]
       ELSE pc' = "trans" /\ UNCHANGED ret
    /\ UNCHANGED <<mvars, xvars>>
    /\ UNCHANGED <<tg, tres, concArg, ready, idx, sem, wg, wpc, taskErrors, cancelled,
                   calls, fnErrs, tg0>>

RunTransition ==
    /\ pc = "trans"
    /\ LET r == transitionLocked(tg, ready[idx], "Running")
       IN /\ tg' = r.g
          /\ IF r.err # ""
             THEN Advance /\ UNCHANGED wg
             ELSE pc' = "sem" /\ wg' = wg + 1 /\ UNCHANGED idx
    /\ UNCHANGED <<mvars, xvars>>
    /\ UNCHANGED <<tres, concArg, ready, sem, wpc, taskErrors, cancelled, ret, calls, fnErrs, tg0>>

RunDispatch ==
    /\ pc = "sem"
    /\ sem < SemCap(concArg)
    /\ sem' = sem + 1
    /\ wpc' = [wpc EXCEPT ![ready[idx]] = "spawned"]
    /\ Advance
    /\ UNCHANGED <<mvars, xvars>>
    /\ UNCHANGED <<tg, tres, concArg, ready, wg, taskErrors, cancelled, ret, calls, fnErrs, tg0>>

RunWait ==
    /\ pc = "wait"
    /\ wg = 0
    /\ pc' = IF taskErrors # <<>> THEN "after" ELSE "collect"
    /\ UNCHANGED <<mvars, xvars>>
    /\ UNCHANGED <<tg, tres, concArg, ready, idx, sem, wg, wpc, taskErrors, cancelled, ret,
                   calls, fnErrs, tg0>>

RunReturn ==
    /\ pc = "after"
    /\ pc' = "returned"
    /\ ret' = RunResult(taskErrors)
    /\ UNCHANGED <<mvars, xvars>>
    /\ UNCHANGED <<tg, tres, concArg, ready, idx, sem, wg, wpc, taskErrors, cancelled,
                   calls, fnErrs, tg0>>

\* ---- Run: the goroutine of one dispatched task
WorkerStart(t) ==
    /\ wpc[t] = "spawned"
    /\ wpc' = [wpc EXCEPT ![t] = "fn"]
    /\ calls' = [calls EXCEPT ![t] = @ + 1]
    /\ UNCHANGED <<mvars, xvars>>
    /\ UNCHANGED <<tg, tres, pc, concArg, ready, idx, sem, wg, taskErrors, cancelled, ret,
                   fnErrs, tg0>>

\* The callback returns (failed: with an error) and the worker records the outcome.
WorkerFinish(t, failed) ==
    /\ wpc[t] = "fn"
    /\ tg' = transitionLocked(tg, t, IF failed THEN "Failed" ELSE "Done").g
    /\ taskErrors' = IF failed THEN Append(taskErrors, t) ELSE taskErrors
    /\ fnErrs' = IF failed THEN fnErrs \cup {t} ELSE fnErrs
    /\ wpc' = [wpc EXCEPT ![t] = "rel"]
    /\ UNCHANGED <<mvars, xvars>>
    /\ UNCHANGED <<tres, pc, concArg, ready, idx, sem, wg, cancelled, ret, calls, tg0>>

WorkerRelease(t) ==
    /\ wpc[t] = "rel"
    /\ sem' = sem - 1
    /\ wpc' = [wpc EXCEPT ![t] = "wgdone"]
    /\ UNCHANGED <<mvars, xvars>>
    /\ UNCHANGED <<tg, tres, pc, concArg, ready, idx, wg, taskErrors, cancelled, ret, calls,
                   fnErrs, tg0>>

WorkerDone(t) ==
    /\ wpc[t] = "wgdone"
    /\ wg' = wg - 1
    /\ wpc' = [wpc EXCEPT ![t] = "idle"]
    /\ UNCHANGED <<mvars, xvars>>
    /\ UNCHANGED <<tg, tres, pc, concArg, ready, idx, sem, taskErrors, cancelled, ret, calls,
                   fnErrs, tg0>>

\* ---- the steps of the specifications
NumDeps == Cardinality(EdgePairs(tg))

\* Spec: a TaskGraph is built with AddTask, AddDependency and Ready, then Run is
\* called once; the context may be cancelled at any moment of the run.
SetupAddTask ==
    /\ pc = "idle"
    /\ \E id \in IDs : AddTask(id)
    /\ UNCHANGED <<mvars, rvars, xvars>>

SetupAddDependency ==
    /\ pc = "idle"
    /\ \E from \in IDs, to \in IDs :
          /\ from # to
          /\ NumDeps < MaxDeps
          /\ AddDependency(from, to)
    /\ UNCHANGED <<mvars, rvars, xvars>>

SetupReady ==
    /\ pc = "idle"
    /\ Ready
    /\ UNCHANGED <<mvars, rvars, xvars>>

StartRun ==
    /\ pc = "idle"
    /\ \E c \in 0..MaxConcurrency : concArg' = c
    /\ pc' = "collect"
    /\ tres' = NoCall
    /\ tg0' = tg
    /\ UNCHANGED <<mvars, xvars>>
    /\ UNCHANGED <<tg, ready, idx, sem, wg, wpc, taskErrors, cancelled, ret, calls, fnErrs>>

Cancel ==
    /\ pc \notin {"idle", "returned"}
    /\ ~cancelled
    /\ cancelled' = TRUE
    /\ UNCHANGED <<mvars, xvars>>
    /\ UNCHANGED <<tg, tres, pc, concArg, ready, idx, sem, wg, wpc, taskErrors, ret, calls,
                   fnErrs, tg0>>

Worker(t) ==
    \/ WorkerStart(t)
    \/ \E failed \in BOOLEAN : WorkerFinish(t, failed)
    \/ WorkerRelease(t)
    \/ WorkerDone(t)

WorkerStep == \E t \in IDs : Worker(t)

RunStep ==
    \/ RunCollect \/ RunCheckCtx \/ RunTransition \/ RunDispatch \/ RunWait \/ RunReturn

\* Who holds TaskGraph.mu: nobody, the goroutine of Run, the goroutine of task t (which
\* also runs the callback of t), or another goroutine of the program.
Holder(who, t) == [who |-> who, t |-> t]

Free == Holder("none", 0)

\* No operation on gr yet.
NoOp == [op |-> "none", err |-> "", a |-> 0, b |-> 0]

NoRequest == [Nodes |-> <<>>, Edges |-> <<>>]

\* An empty directory, a server that has read nothing yet, and a free mutex.
SInit ==
    /\ files = EmptyMap
    /\ lines = <<>>
    /\ out = <<>>
    /\ mu = Free
    /\ cb = [t \in IDs |-> "none"]
    /\ epc = "idle"

\* No graph operation, no batch and no filter yet.
GInit ==
    /\ gres = NoOp
    /\ ureq = NoRequest
    /\ filt = NoFilter
    /\ fres = FALSE

\* The goroutines that call the Manager.
Callers == {1, 2}

\* A call of the Manager by one of them.
MgrCall(op, name, id, status) == [op |-> op, name |-> name, id |-> id, status |-> status]

NoMgrCall == MgrCall("none", "", 0, "")

NoState == [graphs |-> EmptyMap, files |-> EmptyMap]

\* A caller that has not called yet: pc is idle, want (blocked in Lock), in (inside the
\* body, with the cache and directory it found in seen) or done (with the result).
IdleCaller == [pc |-> "idle", call |-> NoMgrCall, seen |-> NoState, res |-> NoResult]

\* Server.Run has not been called: pc is idle, running or returned; err is what it
\* returned; n is the number of lines of its input and long the position of a line
\* that does not fit the scanner's buffer (0: none).
NoRun == [pc |-> "idle", err |-> "", n |-> 0, long |-> 0]

\* The snapshot of an empty directed graph.
NoSnap == Marshal(NewGraph(TRUE))

\* A ReadNodes request that selects every node, and no TopologicalSort result.
NoRead == [IDs |-> <<>>, Filters |-> <<>>, Limit |-> 0, Offset |-> 0]

NoSort == [order |-> <<>>, err |-> "", found |-> FALSE, cycle |-> <<>>]

\* A free Manager.mu, no caller, no round of calls yet, Server.Run not called, and no
\* snapshot, read or sort yet.
NInit ==
    /\ mmu = 0
    /\ cl = [c \in Callers |-> IdleCaller]
    /\ base = NoState
    /\ srun = NoRun
    /\ doc = NoSnap
    /\ rreq = NoRead
    /\ topo = NoSort

XInit == SInit /\ gr = NewGraph(TRUE) /\ GInit /\ NInit

Init == MgrInit /\ TgInit /\ XInit

Next ==
    \/ SetupAddTask \/ SetupAddDependency \/ SetupReady \/ StartRun
    \/ RunStep \/ WorkerStep \/ Cancel

Spec == Init /\ [][Next]_vars

\* FairSpec: Spec with a scheduler that never stops while a goroutine of the run can
\* take a step, and callbacks that return.
FairSpec == Spec /\ WF_vars(RunStep \/ WorkerStep)

\* SpecStates: the tasks of a TaskGraph are brought to any of the six states with
\* Transition (and back to Pending with AddTask), dependencies may form cycles and
\* self-dependencies, then Run is called once with a context that is never cancelled.
StatesAddDependency ==
    /\ pc = "idle"
    /\ \E from \in IDs, to \in IDs :
          /\ NumDeps < MaxDeps
          /\ AddDependency(from, to)
    /\ UNCHANGED <<mvars, rvars, xvars>>

StatesTransition ==
    /\ pc = "idle"
    /\ \E id \in IDs, newState \in TaskStates : TgTransition(id, newState)
    /\ UNCHANGED <<mvars, rvars, xvars>>

StatesNext ==
    \/ SetupAddTask \/ StatesAddDependency \/ StatesTransition \/ StartRun
    \/ RunStep \/ WorkerStep

SpecStates == Init /\ [][StatesNext]_vars

\* FairStates: SpecStates with a scheduler that never stops while a goroutine of the run
\* can take a step, and callbacks that return.
FairStates == SpecStates /\ WF_vars(RunStep \/ WorkerStep)

\* SpecMgr: the Manager alone, on graphs of up to NumNodes nodes.
MgrNext == MgrOpen \/ MgrUpsertNode \/ MgrUpsertEdge \/ MgrTransition

SpecMgr == Init /\ [][MgrNext]_vars

\* SpecCalls: a program that calls either the Manager (nodes with metadata) or the
\* operations of a standalone TaskGraph, on the IDs CallIDs.
CallIDs == 1..(NumNodes - 1)

NumMeta(g) == Cardinality({<<id, k>> \in IDs \X MetaKeys : k \in DOMAIN NodeMeta(g, id)})

MgrUntouched == graphs = EmptyMap /\ mres = NoResult

TgUntouched == tg = NewGraph(TRUE) /\ tres = NoCall

CallOpen == TgUntouched /\ MgrOpen

CallUpsertNode ==
    /\ TgUntouched
    /\ \E name \in Names, id \in CallIDs, status \in Statuses :
          Upsert(name, [Nodes |-> <<UpsertNode(id, "", status, EmptyMap, <<>>)>>,
                        Edges |-> <<>>])
    /\ UNCHANGED <<tvars, rvars, xvars>>

CallUpsertEdge ==
    /\ TgUntouched
    /\ \E name \in Names, from \in CallIDs, to \in CallIDs :
          /\ from < to
          /\ Upsert(name, [Nodes |-> <<>>,
                           Edges |-> <<UpsertEdge(from, to, "", 0, EmptyMap, <<>>)>>])
    /\ UNCHANGED <<tvars, rvars, xvars>>

CallUpsertMeta ==
    /\ TgUntouched
    /\ \E name \in Names, id \in CallIDs, k \in MetaKeys :
          \/ /\ name \in DOMAIN graphs => NumMeta(graphs[name]) < MaxMeta
             /\ Upsert(name, [Nodes |-> <<UpsertNode(id, "", "", (k :> Float64(1)), <<>>)>>,
                              Edges |-> <<>>])
          \/ Upsert(name, [Nodes |-> <<UpsertNode(id, "", "", EmptyMap, <<k>>)>>,
                           Edges |-> <<>>])
    /\ UNCHANGED <<tvars, rvars, xvars>>

CallTransition ==
    /\ TgUntouched
    /\ \E name \in Names, id \in CallIDs, status \in Statuses : Transition(name, id, status)
    /\ UNCHANGED <<tvars, rvars, xvars>>

CallAddTask ==
    /\ MgrUntouched
    /\ \E id \in CallIDs : AddTask(id)
    /\ UNCHANGED <<mvars, rvars, xvars>>

CallAddDependency ==
    /\ MgrUntouched
    /\ \E from \in CallIDs, to \in CallIDs :
          /\ NumDeps < MaxDeps
          /\ AddDependency(from, to)
    /\ UNCHANGED <<mvars, rvars, xvars>>

CallReady ==
    /\ MgrUntouched
    /\ Ready
    /\ UNCHANGED <<mvars, rvars, xvars>>

CallTgTransition ==
    /\ MgrUntouched
    /\ \E id \in CallIDs, s \in TaskStates : TgTransition(id, s)
    /\ UNCHANGED <<mvars, rvars, xvars>>

CallsNext ==
    \/ CallOpen \/ CallUpsertNode \/ CallUpsertEdge \/ CallUpsertMeta \/ CallTransition
    \/ CallAddTask \/ CallAddDependency \/ CallReady \/ CallTgTransition

SpecCalls == Init /\ [][CallsNext]_vars

\* SpecDisk: a program that calls the Manager on the names DiskNames and the IDs DiskIDs,
\* saves and deletes graphs, and may start over with a new Manager on the same directory.
DiskNames == {"g", "h"}

DiskIDs == 1..(NumNodes - 2)

DiskStatuses == {"pending"}

MetaValues == {GoInt(1), Float64(1)}

\* Nodes, edges and metadata entries over the whole cache.
CacheSize(gs) ==
    LET RECURSIVE sum(_)
        sum(S) == IF S = {} THEN 0
                  ELSE LET n == CHOOSE x \in S : TRUE
                       IN Order(gs[n]) + Size(gs[n]) + NumMeta(gs[n]) + sum(S \ {n})
    IN sum(DOMAIN gs)

DiskOpen ==
    /\ \E name \in DiskNames : Open(name)
    /\ UNCHANGED <<tvars, rvars, xvars>>

DiskSave ==
    /\ \E name \in DiskNames :
          LET r == SaveCall(graphs, files, name)
          IN files' = r.files /\ mres' = r.res
    /\ UNCHANGED <<graphs, tvars, rvars, lines, out, mu, cb, epc, gvars, nvars>>

DiskDelete ==
    /\ \E name \in DiskNames :
          LET r == DeleteCall(graphs, files, name)
          IN graphs' = r.graphs /\ files' = r.files /\ mres' = r.res
    /\ UNCHANGED <<tvars, rvars, lines, out, mu, cb, epc, gvars, nvars>>

DiskList ==
    /\ mres' = ListCall(graphs, files)
    /\ UNCHANGED <<graphs, tvars, rvars, xvars>>

DiskSummary ==
    /\ \E name \in DiskNames : mres' = SummaryCall(graphs, name)
    /\ UNCHANGED <<graphs, tvars, rvars, xvars>>

DiskReadNodes ==
    /\ \E name \in DiskNames : mres' = ReadNodesCall(graphs, name)
    /\ UNCHANGED <<graphs, tvars, rvars, xvars>>

DiskUpsert ==
    /\ CacheSize(graphs) < NumNodes - 1
    /\ \E name \in DiskNames, id \in DiskIDs :
          \/ \E status \in DiskStatuses :
                Upsert(name, [Nodes |-> <<UpsertNode(id, "", status, EmptyMap, <<>>)>>,
                              Edges |-> <<>>])
          \/ \E k \in MetaKeys, v \in MetaValues :
                /\ name \in DOMAIN graphs => NumMeta(graphs[name]) < MaxMeta
                /\ Upsert(name, [Nodes |-> <<UpsertNode(id, "", "", (k :> v), <<>>)>>,
                                 Edges |-> <<>>])
          \/ \E to \in DiskIDs :
                /\ name \in DOMAIN graphs => {id, to} \subseteq DOMAIN graphs[name].nodes
                /\ Upsert(name, [Nodes |-> <<>>,
                                 Edges |-> <<UpsertEdge(id, to, "", 1, EmptyMap, <<>>)>>])
    /\ UNCHANGED <<tvars, rvars, xvars>>

DiskTransition ==
    /\ \E name \in DiskNames, id \in DiskIDs, status \in {"ready"} :
          Transition(name, id, status)
    /\ UNCHANGED <<tvars, rvars, xvars>>

DiskRemove ==
    /\ \E name \in DiskNames, id \in DiskIDs :
          \E req \in {[Graph |-> name, Nodes |-> <<id>>, Edges |-> <<>>]}
                     \cup {[Graph |-> name, Nodes |-> <<>>, Edges |-> <<<<id, to>>>>] :
                             to \in DiskIDs} :
             LET r == RemoveCall(graphs, req)
             IN graphs' = r.graphs /\ mres' = r.res
    /\ UNCHANGED <<tvars, rvars, xvars>>

\* The process ends and NewManager is called again on the same directory.
Restart ==
    /\ graphs # EmptyMap
    /\ graphs' = EmptyMap
    /\ mres' = NoResult
    /\ UNCHANGED <<tvars, rvars, xvars>>

DiskNext ==
    \/ DiskOpen \/ DiskSave \/ DiskDelete \/ DiskList \/ DiskSummary \/ DiskReadNodes
    \/ DiskUpsert \/ DiskTransition \/ DiskRemove \/ Restart

SpecDisk == Init /\ [][DiskNext]_vars

\* SpecUpsert: a program that opens the graph "g" and sends batches of up to two
\* entries about the node 1 and the edge 1 -> 2: a label, a weight, a metadata entry
\* to set or a metadata key to delete.
BatchNodes ==
    {UpsertNode(1, l, "", EmptyMap, <<>>) : l \in {"", "A", "B"}}
    \cup {UpsertNode(1, "", "", (k :> GoInt(1)), <<>>) : k \in MetaKeys}
    \cup {UpsertNode(1, "", "", EmptyMap, <<k>>) : k \in MetaKeys}

BatchEdges ==
    {UpsertEdge(1, 2, l, 0, EmptyMap, <<>>) : l \in {"", "x", "y"}}
    \cup {UpsertEdge(1, 2, "", 2, EmptyMap, <<>>)}
    \cup {UpsertEdge(1, 2, "", 0, (k :> GoInt(1)), <<>>) : k \in MetaKeys}
    \cup {UpsertEdge(1, 2, "", 0, EmptyMap, <<k>>) : k \in MetaKeys}

\* The sequences of at most two elements of S.
UpToTwo(S) == {<<>>} \cup {<<x>> : x \in S} \cup {<<x, y>> : x \in S, y \in S}

BatchRequests ==
    {[Nodes |-> ns, Edges |-> <<>>] : ns \in UpToTwo(BatchNodes)}
    \cup {[Nodes |-> <<>>, Edges |-> es] : es \in UpToTwo(BatchEdges)}
    \cup {[Nodes |-> <<n>>, Edges |-> <<e>>] : n \in BatchNodes, e \in BatchEdges}

BatchOpen ==
    /\ Open("g")
    /\ UNCHANGED <<tvars, rvars, xvars>>

BatchUpsert ==
    /\ \E req \in BatchRequests :
          /\ Upsert("g", req)
          /\ ureq' = req
    /\ UNCHANGED <<tvars, rvars, svars, gr, gres, filt, fres, nvars>>

UpsertNext == BatchOpen \/ BatchUpsert

SpecUpsert == Init /\ [][UpsertNext]_vars

\* SpecConc: two goroutines call the Manager at the same time, once each, on the
\* graph "g" that the program has set up before.
ConcCalls ==
    {MgrCall("transition", "g", 1, "running"), MgrCall("transition", "g", 1, "done"),
     MgrCall("upsert", "g", 1, "ready"), MgrCall("remove", "g", 1, ""),
     MgrCall("read", "g", 0, ""), MgrCall("save", "g", 0, ""),
     MgrCall("delete", "g", 0, "")}

\* The body of a Manager method between Lock and Unlock, as a function of the cache
\* and the directory it works on: the set of [graphs, files, res] it may leave (one
\* per order in which Transition may range over the out-edges).
MgrOutcomes(st, call) ==
    CASE call.op = "transition" ->
           {[graphs |-> r.graphs, files |-> st.files, res |-> r.res] :
              r \in {TransitionCall(st.graphs, call.name, call.id, call.status, order) :
                       order \in OutOrders(st.graphs, call.name, call.id, call.status)}}
      [] call.op = "upsert" ->
           {[graphs |-> r.graphs, files |-> st.files, res |-> r.res] :
              r \in {UpsertCall(st.graphs, call.name,
                                [Nodes |-> <<UpsertNode(call.id, "", call.status,
                                                        EmptyMap, <<>>)>>,
                                 Edges |-> <<>>])}}
      [] call.op = "remove" ->
           {[graphs |-> r.graphs, files |-> st.files, res |-> r.res] :
              r \in {RemoveCall(st.graphs, [Graph |-> call.name, Nodes |-> <<call.id>>,
                                            Edges |-> <<>>])}}
      [] call.op = "read" ->
           {[graphs |-> st.graphs, files |-> st.files,
             res |-> ReadNodesCall(st.graphs, call.name)]}
      [] call.op = "save" ->
           {[graphs |-> st.graphs, files |-> r.files, res |-> r.res] :
              r \in {SaveCall(st.graphs, st.files, call.name)}}
      [] call.op = "delete" ->
           {[graphs |-> r.graphs, files |-> r.files, res |-> r.res] :
              r \in {DeleteCall(st.graphs, st.files, call.name)}}

NoCaller == \A c \in Callers : cl[c].pc = "idle"

\* The program sets the graph up before the goroutines start.
ConcSetup ==
    /\ NoCaller
    /\ \/ Open("g") /\ UNCHANGED files
       \/ \E id \in {1, 2} :
             /\ Upsert("g", [Nodes |-> <<UpsertNode(id, "",
                                                    IF id = 1 THEN "ready" ELSE "pending",
                                                    EmptyMap, <<>>)>>,
                             Edges |-> <<>>])
             /\ UNCHANGED files
       \/ /\ Upsert("g", [Nodes |-> <<>>,
                          Edges |-> <<UpsertEdge(1, 2, "", 0, EmptyMap, <<>>)>>])
          /\ UNCHANGED files
       \/ LET r == SaveCall(graphs, files, "g")
          IN files' = r.files /\ mres' = r.res /\ UNCHANGED graphs
    /\ UNCHANGED <<tvars, rvars, lines, out, mu, cb, epc, gvars, nvars>>

\* A goroutine calls a method of the Manager and blocks in m.mu.Lock().
ClientCall(c) ==
    /\ cl[c].pc = "idle"
    /\ \E call \in ConcCalls : cl' = [cl EXCEPT ![c].pc = "want", ![c].call = call]
    /\ base' = IF NoCaller THEN [graphs |-> graphs, files |-> files] ELSE base
    /\ UNCHANGED <<mvars, tvars, rvars, svars, gvars, mmu, qvars>>

\* A Lock that does not wait for the mutex.
ClientLockNoMutex(c) ==
    /\ cl[c].pc = "want"
    /\ mmu' = c
    /\ cl' = [cl EXCEPT ![c].pc = "in",
                        ![c].seen = [graphs |-> graphs, files |-> files]]
    /\ UNCHANGED <<mvars, tvars, rvars, svars, gvars, base, qvars>>

\* m.mu.Lock() returns; the body starts on the cache and the directory as they are.
ClientLock(c) ==
    /\ cl[c].pc = "want"
    /\ mmu = 0
    /\ mmu' = c
    /\ cl' = [cl EXCEPT ![c].pc = "in",
                        ![c].seen = [graphs |-> graphs, files |-> files]]
    /\ UNCHANGED <<mvars, tvars, rvars, svars, gvars, base, qvars>>

\* The body completes what it started on the state it found, and the deferred
\* m.mu.Unlock() runs.
ClientReturn(c) ==
    /\ cl[c].pc = "in"
    /\ \E o \in MgrOutcomes(cl[c].seen, cl[c].call) :
          /\ graphs' = o.graphs
          /\ files' = o.files
          /\ cl' = [cl EXCEPT ![c].pc = "done", ![c].res = o.res]
    /\ mmu' = 0
    /\ UNCHANGED <<mres, tvars, rvars, lines, out, mu, cb, epc, gvars, base, qvars>>

ClientStep == \E c \in Callers : ClientCall(c) \/ ClientLock(c) \/ ClientReturn(c)

ConcNext == ConcSetup \/ ClientStep

SpecConc == Init /\ [][ConcNext]_vars

\* SpecGraph: a program that works on one Graph[NodeData, EdgeData], directed or not,
\* with AddNode, AddEdge, RemoveNode, RemoveEdge and Copy on the IDs GraphIDs, and that
\* sets entries in the metadata stores of its nodes and edges.
GraphIDs == 1..(NumNodes - 1)

GraphPayloads == {NodeData("A", ""), NodeData("B", "")}

GraphWeights == {1, 2}

\* g.NodeMeta(id).Set(k, v) and g.EdgeMeta(from, to).Set(k, v).
NodeMetaSet(g, id, k, v) ==
    [g EXCEPT !.nodeMeta = PutStore(g.nodeMeta, id, setMeta(NodeMeta(g, id), (k :> v)))]

EdgeMetaSet(g, from, to, k, v) ==
    [g EXCEPT !.edgeMeta = PutStore(g.edgeMeta, <<from, to>>,
                                    setMeta(EdgeMeta(g, from, to), (k :> v)))]

\* The number of stores that hold an entry.
NumStores(g) == Cardinality(DOMAIN g.nodeMeta) + Cardinality(DOMAIN g.edgeMeta)

GraphOp(op, err, a, b) == [op |-> op, err |-> err, a |-> a, b |-> b]

GraphInit ==
    /\ MgrInit /\ TgInit /\ SInit /\ GInit /\ NInit
    /\ gr \in {NewGraph(TRUE), NewGraph(FALSE)}

GAddNode ==
    /\ \E id \in GraphIDs, data \in GraphPayloads :
          /\ gr' = AddNode(gr, id, data)
          /\ gres' = GraphOp("AddNode", "", id, 0)
    /\ UNCHANGED <<mvars, tvars, rvars, svars, ureq, filt, fres, nvars>>

GAddEdge ==
    /\ \E from \in GraphIDs, to \in GraphIDs, w \in GraphWeights :
          /\ HasEdge(gr, from, to) \/ Size(gr) < MaxDeps
          /\ gr' = AddEdge(gr, from, to, EdgeData("x"), w).g
          /\ gres' = GraphOp("AddEdge", AddEdge(gr, from, to, EdgeData("x"), w).err, from, to)
    /\ UNCHANGED <<mvars, tvars, rvars, svars, ureq, filt, fres, nvars>>

GRemoveNode ==
    /\ \E id \in GraphIDs :
          /\ gr' = RemoveNode(gr, id)
          /\ gres' = GraphOp("RemoveNode", "", id, 0)
    /\ UNCHANGED <<mvars, tvars, rvars, svars, ureq, filt, fres, nvars>>

GRemoveEdge ==
    /\ \E from \in GraphIDs, to \in GraphIDs :
          /\ gr' = RemoveEdge(gr, from, to)
          /\ gres' = GraphOp("RemoveEdge", "", from, to)
    /\ UNCHANGED <<mvars, tvars, rvars, svars, ureq, filt, fres, nvars>>

\* The program goes on with the copy.
GCopy ==
    /\ gr' = Copy(gr)
    /\ gres' = GraphOp("Copy", "", 0, 0)
    /\ UNCHANGED <<mvars, tvars, rvars, svars, ureq, filt, fres, nvars>>

GSetNodeMeta ==
    /\ \E id \in GraphIDs, k \in MetaKeys, v \in MetaValues :
          /\ HasNode(gr, id)
          /\ NodeMeta(gr, id) # EmptyMap \/ NumStores(gr) < MaxMeta
          /\ gr' = NodeMetaSet(gr, id, k, v)
          /\ gres' = GraphOp("NodeMeta.Set", "", id, 0)
    /\ UNCHANGED <<mvars, tvars, rvars, svars, ureq, filt, fres, nvars>>

GSetEdgeMeta ==
    /\ \E from \in GraphIDs, to \in GraphIDs, k \in MetaKeys, v \in MetaValues :
          /\ HasEdge(gr, from, to)
          /\ EdgeMeta(gr, from, to) # EmptyMap \/ NumStores(gr) < MaxMeta
          /\ gr' = EdgeMetaSet(gr, from, to, k, v)
          /\ gres' = GraphOp("EdgeMeta.Set", "", from, to)
    /\ UNCHANGED <<mvars, tvars, rvars, svars, ureq, filt, fres, nvars>>

GraphNext ==
    \/ GAddNode \/ GAddEdge \/ GRemoveNode \/ GRemoveEdge \/ GCopy
    \/ GSetNodeMeta \/ GSetEdgeMeta

SpecGraph == GraphInit /\ [][GraphNext]_vars

\* ------------------------------------------------------------------ TopologicalSort, CycleDetect
\* Neighbors(id): the targets of the out-edges of id, sorted.
Neighbors(g, id) == IF id \in DOMAIN g.out THEN SortedSeq(DOMAIN g.out[id]) ELSE <<>>

\* The inner loop of Kahn's algorithm: each neighbour loses one in-degree, and one that
\* reaches zero is appended to the queue, which is sorted again.
RECURSIVE kahnNeighbors(_, _)
kahnNeighbors(st, nbs) ==
    IF nbs = <<>> THEN st
    ELSE LET nb == Head(nbs)
             d == st.inDeg[nb] - 1
             st1 == [st EXCEPT !.inDeg[nb] = d,
                               !.queue = IF d = 0 THEN sortStrings(Append(st.queue, nb))
                                         ELSE st.queue]
         IN kahnNeighbors(st1, Tail(nbs))

\* The outer loop: the head of the queue goes to the order.
RECURSIVE kahnLoop(_, _)
kahnLoop(g, st) ==
    IF st.queue = <<>> THEN st
    ELSE LET id == Head(st.queue)
             st1 == [st EXCEPT !.queue = Tail(st.queue), !.order = Append(st.order, id)]
         IN kahnLoop(g, CHOOSE r \in {kahnNeighbors(st1, Neighbors(g, id))} : TRUE)

\* The in-degree of every node and the nodes of in-degree zero, sorted.
kahnStart(g) ==
    LET inDeg == [id \in DOMAIN g.nodes |-> Cardinality(InEdges(g, id))]
    IN [inDeg |-> inDeg, order |-> <<>>,
        queue |-> SortedSeq({id \in DOMAIN g.nodes : inDeg[id] = 0})]

\* A TopologicalSort that starts from the queue of roots in descending order.
TopologicalSortUnsortedStart(g) ==
    IF ~g.Directed THEN [order |-> <<>>, err |-> "undirected"]
    ELSE LET st == kahnStart(g)
             r == kahnLoop(g, [st EXCEPT !.queue = Reverse(st.queue)])
         IN IF Len(r.order) # Order(g) THEN [order |-> <<>>, err |-> "cycle"]
            ELSE [order |-> r.order, err |-> ""]

TopologicalSort(g) ==
    IF ~g.Directed THEN [order |-> <<>>, err |-> "undirected"]
    ELSE LET r == kahnLoop(g, kahnStart(g))
         IN IF Len(r.order) # Order(g) THEN [order |-> <<>>, err |-> "cycle"]
            ELSE [order |-> r.order, err |-> ""]

white == 0
gray == 1
black == 2

\* The cycle that closes at the gray node nb, met from id: nb, id, then the parents of
\* id up to nb, reversed.
RECURSIVE cycleParents(_, _, _)
cycleParents(parent, cur, nb) ==
    IF cur = nb \/ parent[cur] = nb THEN <<>>
    ELSE <<parent[cur]>> \o cycleParents(parent, parent[cur], nb)

cyclePath(parent, id, nb) == Reverse(<<nb, id>> \o cycleParents(parent, id, nb))

\* dfs(id) and the loop over the neighbours of id, from the neighbours nbs on.
RECURSIVE dfs(_, _, _)
RECURSIVE dfsNeighbors(_, _, _, _)
dfs(g, id, st) ==
    IF st.found THEN st
    ELSE LET r == CHOOSE x \in {dfsNeighbors(g, id, Neighbors(g, id),
                                             [st EXCEPT !.color[id] = gray])} : TRUE
         IN IF r.found THEN r ELSE [r EXCEPT !.color[id] = black]

dfsNeighbors(g, id, nbs, st) ==
    IF nbs = <<>> \/ st.found THEN st
    ELSE LET nb == Head(nbs)
         IN IF st.color[nb] = gray
            THEN [st EXCEPT !.cycle = cyclePath(st.parent, id, nb), !.found = TRUE]
            ELSE IF st.color[nb] = white
            THEN dfsNeighbors(g, id, Tail(nbs),
                              CHOOSE x \in {dfs(g, nb, [st EXCEPT !.parent[nb] = id])} : TRUE)
            ELSE dfsNeighbors(g, id, Tail(nbs), st)

\* The loop of CycleDetect over Nodes(): dfs from every node that is still white.
RECURSIVE cycleNodes(_, _, _)
cycleNodes(g, nodes, st) ==
    IF nodes = <<>> \/ st.found THEN st
    ELSE IF st.color[Head(nodes)] = white
    THEN cycleNodes(g, Tail(nodes), CHOOSE x \in {dfs(g, Head(nodes), st)} : TRUE)
    ELSE cycleNodes(g, Tail(nodes), st)

CycleDetect(g) ==
    IF ~g.Directed THEN [found |-> FALSE, cycle |-> <<>>]
    ELSE LET r == cycleNodes(g, SortedSeq(DOMAIN g.nodes),
                             [color |-> [id \in IDs |-> white], parent |-> [id \in IDs |-> 0],
                              found |-> FALSE, cycle |-> <<>>])
         IN [found |-> r.found, cycle |-> r.cycle]

\* SpecSort: a program that builds one graph, directed or not, on the IDs 1..NumNodes
\* with AddNode, AddEdge (self-loops too) and RemoveEdge, and that asks for
\* TopologicalSort and CycleDetect of the graph it has.
SortEdges == MaxDeps + 1

SortAddNode ==
    /\ \E id \in IDs :
          /\ gr' = AddNode(gr, id, NodeData("A", ""))
          /\ gres' = GraphOp("AddNode", "", id, 0)
    /\ UNCHANGED <<mvars, tvars, rvars, svars, ureq, filt, fres, nvars>>

SortAddEdge ==
    /\ \E from \in IDs, to \in IDs :
          /\ HasEdge(gr, from, to) \/ Size(gr) < SortEdges
          /\ gr' = AddEdge(gr, from, to, EdgeData("x"), 1).g
          /\ gres' = GraphOp("AddEdge", AddEdge(gr, from, to, EdgeData("x"), 1).err, from, to)
    /\ UNCHANGED <<mvars, tvars, rvars, svars, ureq, filt, fres, nvars>>

SortRemoveEdge ==
    /\ \E from \in IDs, to \in IDs :
          /\ gr' = RemoveEdge(gr, from, to)
          /\ gres' = GraphOp("RemoveEdge", "", from, to)
    /\ UNCHANGED <<mvars, tvars, rvars, svars, ureq, filt, fres, nvars>>

\* order, err := TopologicalSort(g); found, cycle := CycleDetect(g).
SortCall ==
    /\ topo' = [order |-> TopologicalSort(gr).order, err |-> TopologicalSort(gr).err,
                found |-> CycleDetect(gr).found, cycle |-> CycleDetect(gr).cycle]
    /\ gres' = GraphOp("TopologicalSort", TopologicalSort(gr).err, 0, 0)
    /\ UNCHANGED <<mvars, tvars, rvars, svars, gr, ureq, filt, fres, cvars, srun, doc, rreq>>

SortNext == SortAddNode \/ SortAddEdge \/ SortRemoveEdge \/ SortCall

SpecSort == GraphInit /\ [][SortNext]_vars

\* SpecCodec: Unmarshal and ApplyMeta are given documents made from the snapshot of
\* a graph by hand: another version, a node or the edges taken out of the topology,
\* metadata entries added for a node and an edge that the topology does not have.
\* Between the calls the program removes nodes and edges of the decoded graph.
Tamperings == {"none", "version 0", "version 2", "drop node", "drop edges", "add metadata"}

\* Node 3 is no node of any graph here.
StrayNodeMeta == [id |-> NumNodes, entries |-> ("k" :> 1)]

StrayEdgeMeta == [from |-> NumNodes, to |-> 1, entries |-> ("k" :> 1)]

Tamper(snap, t) ==
    CASE t = "none" -> snap
      [] t = "version 0" -> [snap EXCEPT !.version = 0]
      [] t = "version 2" -> [snap EXCEPT !.version = 2]
      [] t = "drop node" ->
           [snap EXCEPT !.graph.nodes = SubSeq(@, 1, Len(@) - 1)]
      [] t = "drop edges" -> [snap EXCEPT !.graph.edges = <<>>]
      [] t = "add metadata" ->
           [snap EXCEPT !.metadata.nodes = Append(@, StrayNodeMeta),
                        !.metadata.edges = Append(@, StrayEdgeMeta)]

\* The graphs whose snapshots are tampered with: nodes 1 and 2, an edge 1 -> 2 (1 - 2),
\* an entry on node 2 and one on the edge.
DocGraph(directed) ==
    LET g1 == AddNode(AddNode(NewGraph(directed), 1, NodeData("A", "")), 2, NodeData("B", ""))
        g2 == AddEdgeOk(g1, 1, 2, EdgeData("x"), 1)
    IN EdgeMetaSet(NodeMetaSet(g2, 2, "k", GoInt(1)), 1, 2, "k", GoInt(2))

Documents ==
    {Tamper(Marshal(g), t) :
       g \in {DocGraph(TRUE), DocGraph(FALSE), NewGraph(TRUE)}, t \in Tamperings}

CodecUnmarshal ==
    /\ \E d \in Documents :
          \E r \in {Unmarshal(d)} :
             /\ doc' = d
             /\ gr' = IF r.err = "" THEN r.g ELSE gr
             /\ gres' = GraphOp("Unmarshal", r.err, 0, 0)
    /\ UNCHANGED <<mvars, tvars, rvars, svars, ureq, filt, fres, cvars, srun, rreq, topo>>

CodecApplyMeta ==
    /\ \E d \in Documents :
          \E r \in {ApplyMeta(d, gr)} :
             /\ doc' = d
             /\ gr' = r.g
             /\ gres' = GraphOp("ApplyMeta", r.err, 0, 0)
    /\ UNCHANGED <<mvars, tvars, rvars, svars, ureq, filt, fres, cvars, srun, rreq, topo>>

CodecNext ==
    GRemoveNode \/ GRemoveEdge \/ CodecUnmarshal \/ CodecApplyMeta

SpecCodec == GraphInit /\ [][CodecNext]_vars

\* SpecFilter: matchFilter is applied to a store that is nil, empty or holds the key
\* "p", to a node with label "A" and status "2", and to every filter over the keys
\* FilterKeys, the operators FilterOps and the values FilterValues.
FilterValues == {GoInt(1), GoInt(2), Float64(2), Float64(3), GoString(<<"2">>),
                 GoBool(TRUE), GoNil}

FilterStores ==
    {FilterStore(TRUE, EmptyMap), FilterStore(FALSE, EmptyMap)}
    \cup {FilterStore(FALSE, ("p" :> v)) : v \in FilterValues}

FilterKeys == {"status", "label", "p"}

FilterOps == {"exists", "eq", "neq", "contains", "gt", "gte", "lt", "lte", "bogus"}

FilterStep ==
    /\ \E store \in FilterStores, k \in FilterKeys, op \in FilterOps, v \in FilterValues :
          /\ filt' = [store |-> store, data |-> NodeData(<<"A">>, <<"2">>),
                      f |-> MetaFilter(k, op, v)]
          /\ fres' = matchFilter(store, NodeData(<<"A">>, <<"2">>), MetaFilter(k, op, v))
    /\ UNCHANGED <<mvars, tvars, rvars, svars, gr, gres, ureq, nvars>>

FilterNext == FilterStep

SpecFilter == Init /\ [][FilterNext]_vars

\* SpecRead: the graph "g" gets the nodes 1 to 3, with a status and metadata, and is
\* read with and without an ID list and filters, page by page.
ReadIDLists == {<<>>, <<2, 1>>, <<1, 1>>, <<3, NumNodes + 1, 2>>}

ReadFilters ==
    {<<>>, <<MetaFilter("status", "eq", GoString(Chars("pending")))>>,
     <<MetaFilter("k", "exists", GoNil)>>}

ReadLimits == 0..2

ReadUpsert ==
    /\ \E id \in 1..NumNodes, status \in {"pending", "done"},
          meta \in {EmptyMap, ("k" :> GoInt(1))} :
          /\ id > 1 => meta = EmptyMap
          /\ id = NumNodes => status = "pending"
          /\ Upsert("g", [Nodes |-> <<UpsertNode(id, "", status, meta, <<>>)>>,
                          Edges |-> <<>>])
    /\ UNCHANGED <<tvars, rvars, xvars>>

ReadStep ==
    /\ "g" \in DOMAIN graphs
    /\ \E ids \in ReadIDLists, fs \in ReadFilters, limit \in ReadLimits, offset \in 0..2 :
          \E r \in {ReadNodes(graphs["g"], ReadNodesRequest(ids, fs, limit, offset))} :
             /\ rreq' = ReadNodesRequest(ids, fs, limit, offset)
             /\ mres' = [NoResult EXCEPT !.op = "read", !.ids = r.ids, !.total = r.Total,
                                         !.more = r.HasMore]
    /\ UNCHANGED <<graphs, tvars, rvars, svars, gvars, cvars, srun, doc, topo>>

ReadNext == BatchOpen \/ ReadUpsert \/ ReadStep

SpecRead == Init /\ [][ReadNext]_vars

\* ------------------------------------------------------------------ RPC server
MaxLines == 3

CodeParseError == 0 - 32700

CodeMethodNotFound == 0 - 32601

CodeInvalidParams == 0 - 32602

\* The registered tools, in the order of registerTools.
ToolNames == {"open_graph", "save_graph", "list_graphs", "delete_graph", "graph_summary",
              "upsert", "read_nodes", "transition", "remove"}

\* The arguments of a tool call: ok says whether they decode into the tool's
\* argument type; name is the graph, id and status what upsert, transition and remove
\* are asked to work on.
ToolArgs(ok, name, id, status) == [ok |-> ok, name |-> name, id |-> id, status |-> status]

\* The params of tools/call: ok says whether they decode into ToolCallParams.
ToolCallParams(ok, name, arguments) == [ok |-> ok, name |-> name, arguments |-> arguments]

NoParams == ToolCallParams(FALSE, "", ToolArgs(FALSE, "", 0, ""))

\* An input line: blank, not JSON, or a request; id 0 is a request without id.
BlankLine == [kind |-> "blank", id |-> 0, method |-> "", params |-> NoParams]

GarbageLine == [kind |-> "garbage", id |-> 0, method |-> "", params |-> NoParams]

Request(id, method, params) ==
    [kind |-> "request", id |-> id, method |-> method, params |-> params]

\* A response line; id 0 is the JSON null.  kind is "error" (code says which),
\* "initialize", "tools" or "call"; a "call" carries isError and the text block, and
\* value is the Manager result that the text encodes.
Response(id, kind, code, isError, text, value) ==
    [id |-> id, kind |-> kind, code |-> code, isError |-> isError, text |-> text,
     value |-> value]

ErrorResponse(id, code) == Response(id, "error", code, FALSE, "", NoResult)

\* What a tool handler returns, from what the Manager call returned.
ToolOutcome(gs, fs, res) == [graphs |-> gs, files |-> fs, res |-> res]

CacheOutcome(fs, r) == ToolOutcome(r.graphs, fs, r.res)

FilesOutcome(gs, r) == ToolOutcome(gs, r.files, r.res)

\* A tool handler: decodes its arguments and calls the Manager; [graphs, files, res].
\* (The graphs of the server hold no edges, so Transition has one propagation order.)
CallTool(gs, fs, tool, args) ==
    IF tool = "list_graphs" THEN ToolOutcome(gs, fs, ListCall(gs, fs))
    ELSE IF ~args.ok
    THEN ToolOutcome(gs, fs, [NoResult EXCEPT !.op = tool, !.err = "badargs"])
    ELSE CASE tool = "open_graph" -> CacheOutcome(fs, OpenCall(gs, fs, args.name))
           [] tool = "save_graph" -> FilesOutcome(gs, SaveCall(gs, fs, args.name))
           [] tool = "delete_graph" -> DeleteCall(gs, fs, args.name)
           [] tool = "graph_summary" -> ToolOutcome(gs, fs, SummaryCall(gs, args.name))
           [] tool = "upsert" ->
                 CacheOutcome(fs, UpsertCall(gs, args.name,
                                             [Nodes |-> <<UpsertNode(args.id, "", args.status,
                                                                     EmptyMap, <<>>)>>,
                                              Edges |-> <<>>]))
           [] tool = "read_nodes" -> ToolOutcome(gs, fs, ReadNodesCall(gs, args.name))
           [] tool = "transition" ->
                 CacheOutcome(fs, TransitionCall(gs, args.name, args.id, args.status,
                                                 CHOOSE o \in OutOrders(gs, args.name, args.id,
                                                                        args.status) : TRUE))
           [] tool = "remove" ->
                 CacheOutcome(fs, RemoveCall(gs, [Graph |-> args.name, Nodes |-> <<args.id>>,
                                                  Edges |-> <<>>]))

\* The result of Server.handle: none is TRUE when handle returns nil.
Handled(gs, fs, none, resp) == [graphs |-> gs, files |-> fs, none |-> none, resp |-> resp]

\* A server that reports a failed tool call as a JSON-RPC error.
ToolCallResponseAsRpcError(id, r) ==
    Handled(r.graphs, r.files, FALSE,
            IF r.res.err # "" THEN ErrorResponse(id, CodeInvalidParams)
            ELSE Response(id, "call", 0, FALSE, "", r.res))

\* The response of tools/call to what the handler returned: the error message in a
\* text block with isError, or the encoded result in a text block.
ToolCallResponse(id, r) ==
    Handled(r.graphs, r.files, FALSE,
            IF r.res.err # "" THEN Response(id, "call", 0, TRUE, r.res.err, NoResult)
            ELSE Response(id, "call", 0, FALSE, "", r.res))

\* A handle that answers an unknown tool with "method not found".
handleUnknownToolAsMethod(gs, fs, req) ==
    CASE req.method = "initialize" ->
            Handled(gs, fs, FALSE, Response(req.id, "initialize", 0, FALSE, "", NoResult))
      [] req.method = "notifications/initialized" ->
            Handled(gs, fs, TRUE, ErrorResponse(0, 0))
      [] req.method = "tools/list" ->
            Handled(gs, fs, FALSE, Response(req.id, "tools", 0, FALSE, "", NoResult))
      [] req.method = "tools/call" ->
            IF ~req.params.ok
            THEN Handled(gs, fs, FALSE, ErrorResponse(req.id, CodeInvalidParams))
            ELSE IF req.params.name \notin ToolNames
            THEN Handled(gs, fs, FALSE, ErrorResponse(req.id, CodeMethodNotFound))
            ELSE ToolCallResponse(req.id, CallTool(gs, fs, req.params.name,
                                                   req.params.arguments))
      [] OTHER -> Handled(gs, fs, FALSE, ErrorResponse(req.id, CodeMethodNotFound))

\* A handle that does not answer tools/list.
handleSilentList(gs, fs, req) ==
    CASE req.method = "initialize" ->
            Handled(gs, fs, FALSE, Response(req.id, "initialize", 0, FALSE, "", NoResult))
      [] req.method = "notifications/initialized" ->
            Handled(gs, fs, TRUE, ErrorResponse(0, 0))
      [] req.method = "tools/list" ->
            Handled(gs, fs, TRUE, ErrorResponse(0, 0))
      [] req.method = "tools/call" ->
            IF ~req.params.ok \/ req.params.name \notin ToolNames
            THEN Handled(gs, fs, FALSE, ErrorResponse(req.id, CodeInvalidParams))
            ELSE ToolCallResponse(req.id, CallTool(gs, fs, req.params.name,
                                                   req.params.arguments))
      [] OTHER -> Handled(gs, fs, FALSE, ErrorResponse(req.id, CodeMethodNotFound))

\* Server.handle on a decoded request.
handle(gs, fs, req) ==
    CASE req.method = "initialize" ->
            Handled(gs, fs, FALSE, Response(req.id, "initialize", 0, FALSE, "", NoResult))
      [] req.method = "notifications/initialized" ->
            Handled(gs, fs, TRUE, ErrorResponse(0, 0))
      [] req.method = "tools/list" ->
            Handled(gs, fs, FALSE, Response(req.id, "tools", 0, FALSE, "", NoResult))
      [] req.method = "tools/call" ->
            IF ~req.params.ok \/ req.params.name \notin ToolNames
            THEN Handled(gs, fs, FALSE, ErrorResponse(req.id, CodeInvalidParams))
            ELSE ToolCallResponse(req.id, CallTool(gs, fs, req.params.name,
                                                   req.params.arguments))
      [] OTHER -> Handled(gs, fs, FALSE, ErrorResponse(req.id, CodeMethodNotFound))

\* Run after handle: the response, if there is one, is written to the output.
Written(st, h) ==
    [graphs |-> h.graphs, files |-> h.files,
     out |-> IF h.none THEN st.out ELSE Append(st.out, h.resp)]

\* One iteration of the loop of Server.Run that drops a line it cannot parse.
HandleLineSilent(st, line) ==
    IF line.kind \in {"blank", "garbage"} THEN st
    ELSE Written(st, handle(st.graphs, st.files, line))

\* One iteration of the loop of Server.Run on a line; st = [graphs, files, out].
HandleLine(st, line) ==
    IF line.kind = "blank" THEN st
    ELSE IF line.kind = "garbage"
    THEN [st EXCEPT !.out = Append(st.out, ErrorResponse(0, CodeParseError))]
    ELSE Written(st, handle(st.graphs, st.files, line))

\* SpecRpc: a server fed up to MaxLines lines about the graph "g" and the node 1.
RpcIDs == 0..2

RpcMethods == {"initialize", "notifications/initialized", "tools/list", "bogus/method"}

RpcParams ==
    {NoParams, ToolCallParams(TRUE, "no_such_tool", ToolArgs(TRUE, "g", 0, ""))}
    \cup {ToolCallParams(TRUE, t, ToolArgs(FALSE, "", 0, "")) :
            t \in {"open_graph", "list_graphs", "upsert"}}
    \cup {ToolCallParams(TRUE, t, ToolArgs(TRUE, "g", 1, "")) :
            t \in ToolNames \ {"list_graphs", "upsert", "transition"}}
    \cup {ToolCallParams(TRUE, "upsert", ToolArgs(TRUE, "g", 1, "pending")),
          ToolCallParams(TRUE, "transition", ToolArgs(TRUE, "g", 1, "ready"))}

RpcLines ==
    {BlankLine, GarbageLine}
    \cup {Request(id, m, NoParams) : id \in RpcIDs, m \in RpcMethods}
    \cup {Request(id, "tools/call", p) : id \in RpcIDs, p \in RpcParams}

ServerStep ==
    /\ Len(lines) < MaxLines
    /\ \E line \in RpcLines :
          \E st \in {HandleLine([graphs |-> graphs, files |-> files, out |-> out], line)} :
             /\ lines' = Append(lines, line)
             /\ graphs' = st.graphs
             /\ files' = st.files
             /\ out' = st.out
    /\ UNCHANGED <<mres, tvars, rvars, mu, cb, epc, gvars, nvars>>

RpcNext == ServerStep

SpecRpc == Init /\ [][RpcNext]_vars

\* SpecRun: Server.Run is called on an input of up to MaxLines lines, one of which
\* may be longer than the scanner's buffer, with a writer that may fail.
InputLines ==
    {BlankLine, GarbageLine, Request(1, "initialize", NoParams),
     Request(1, "notifications/initialized", NoParams),
     Request(1, "tools/call", ToolCallParams(TRUE, "open_graph", ToolArgs(TRUE, "g", 1, ""))),
     Request(2, "tools/call", ToolCallParams(TRUE, "upsert", ToolArgs(TRUE, "g", 1, "pending")))}

RunCalled ==
    /\ srun.pc = "idle"
    /\ \E n \in 0..MaxLines, long \in 0..MaxLines :
          /\ long <= n
          /\ srun' = [pc |-> "running", err |-> "", n |-> n, long |-> long]
    /\ UNCHANGED <<mvars, tvars, rvars, svars, gvars, cvars, doc, rreq, topo>>

\* scanner.Scan() returns a line and the body of the loop runs: the line is handled,
\* and when there is a response, writeResponse succeeds (ok) or fails, and Run
\* returns the error.
RunIteration ==
    /\ srun.pc = "running"
    /\ Len(lines) < srun.n
    /\ Len(lines) + 1 # srun.long
    /\ \E line \in InputLines, ok \in BOOLEAN :
          \E st \in {HandleLine([graphs |-> graphs, files |-> files, out |-> out], line)} :
             /\ lines' = Append(lines, line)
             /\ graphs' = st.graphs
             /\ files' = st.files
             /\ IF st.out # out /\ ~ok
                THEN out' = out /\ srun' = [srun EXCEPT !.pc = "returned", !.err = "write"]
                ELSE out' = st.out /\ UNCHANGED srun
    /\ UNCHANGED <<mres, tvars, rvars, mu, cb, epc, gvars, cvars, doc, rreq, topo>>

\* scanner.Scan() returns false on a line longer than the buffer; Run returns
\* scanner.Err(), which is bufio.ErrTooLong.
RunTooLong ==
    /\ srun.pc = "running"
    /\ Len(lines) + 1 = srun.long
    /\ srun' = [srun EXCEPT !.pc = "returned", !.err = "toolong"]
    /\ UNCHANGED <<mvars, tvars, rvars, svars, gvars, cvars, doc, rreq, topo>>

\* scanner.Scan() returns false at the end of the input; Run returns nil.
RunEOF ==
    /\ srun.pc = "running"
    /\ Len(lines) = srun.n
    /\ srun' = [srun EXCEPT !.pc = "returned"]
    /\ UNCHANGED <<mvars, tvars, rvars, svars, gvars, cvars, doc, rreq, topo>>

ServerRunStep == RunIteration \/ RunTooLong \/ RunEOF

ServerRunNext == RunCalled \/ ServerRunStep

SpecRun == Init /\ [][ServerRunNext]_vars

\* The goroutine of Server.Run is scheduled as long as it can take a step.
FairRun == SpecRun /\ WF_vars(ServerRunStep)

\* ------------------------------------------------------------------ SpecLock
\* SpecLock: Run with TaskGraph.mu explicit.  A TaskGraph of the tasks LockIDs is built,
\* Run is called with a context that is never cancelled; each callback may call
\* GetTask, Ready or Transition once, and so may one other goroutine.
LockIDs == 1..(NumNodes - 1)

\* The calls of the TaskGraph API made by callbacks and by the other goroutine.
ApiCalls ==
    {[op |-> "GetTask", id |-> id, state |-> ""] : id \in LockIDs}
    \cup {[op |-> "Ready", id |-> 0, state |-> ""]}
    \cup {[op |-> "Transition", id |-> id, state |-> st] :
            id \in LockIDs, st \in {"Running", "Done", "Skipped"}}

\* The graph that a call leaves, made with the lock held.
ApiCall(g, call) ==
    CASE call.op = "GetTask" -> g
      [] call.op = "Ready" -> readyLocked(g).g
      [] call.op = "Transition" -> transitionLocked(g, call.id, call.state).g

LockAddTask ==
    /\ SetupAddTask
    /\ DOMAIN tg'.nodes \subseteq LockIDs

LockAddDependency ==
    /\ SetupAddDependency
    /\ tres'.err = ""

\* tg.mu.Lock() of the goroutine of Run, before readyLocked and before transitionLocked.
RunLock ==
    /\ pc \in {"collect", "trans"}
    /\ mu = Free
    /\ mu' = Holder("run", 0)
    /\ UNCHANGED <<mvars, tvars, rvars, files, lines, out, cb, epc, gvars, nvars>>

\* readyLocked and tg.mu.Unlock().
RunCollectLocked ==
    /\ pc = "collect"
    /\ mu = Holder("run", 0)
    /\ LET r == readyLocked(tg)
       IN /\ tg' = r.g
          /\ ready' = r.ready
          /\ IF r.ready = <<>>
             THEN pc' = "after" /\ UNCHANGED <<idx, sem>>
             ELSE pc' = "ctx" /\ idx' = 1 /\ sem' = 0
    /\ mu' = Free
    /\ UNCHANGED <<mvars, files, lines, out, cb, epc, gvars, nvars>>
    /\ UNCHANGED <<tres, concArg, wg, wpc, taskErrors, cancelled, ret, calls, fnErrs, tg0>>

\* A Run that does not look at the error of transitionLocked.
RunTransitionLockedIgnoresError ==
    /\ pc = "trans"
    /\ mu = Holder("run", 0)
    /\ tg' = transitionLocked(tg, ready[idx], "Running").g
    /\ pc' = "sem"
    /\ wg' = wg + 1
    /\ mu' = Free
    /\ UNCHANGED <<mvars, files, lines, out, cb, epc, gvars, nvars>>
    /\ UNCHANGED <<tres, concArg, ready, idx, sem, wpc, taskErrors, cancelled, ret, calls,
                   fnErrs, tg0>>

\* transitionLocked(task.ID, Running) and tg.mu.Unlock().
RunTransitionLocked ==
    /\ pc = "trans"
    /\ mu = Holder("run", 0)
    /\ LET r == transitionLocked(tg, ready[idx], "Running")
       IN /\ tg' = r.g
          /\ IF r.err # ""
             THEN Advance /\ UNCHANGED wg
             ELSE pc' = "sem" /\ wg' = wg + 1 /\ UNCHANGED idx
    /\ mu' = Free
    /\ UNCHANGED <<mvars, files, lines, out, cb, epc, gvars, nvars>>
    /\ UNCHANGED <<tres, concArg, ready, sem, wpc, taskErrors, cancelled, ret, calls, fnErrs,
                   tg0>>

\* tg.mu.Lock() of the goroutine of task t: before it re-reads the task, and after
\* the callback has returned.
WorkerLock(t) ==
    /\ wpc[t] \in {"spawned", "ret"}
    /\ mu = Free
    /\ mu' = Holder("task", t)
    /\ UNCHANGED <<mvars, tvars, rvars, files, lines, out, cb, epc, gvars, nvars>>

\* A goroutine that calls fn without unlocking first.
WorkerRereadKeepsLock(t) ==
    /\ wpc[t] = "spawned"
    /\ mu = Holder("task", t)
    /\ wpc' = [wpc EXCEPT ![t] = "fn"]
    /\ calls' = [calls EXCEPT ![t] = @ + 1]
    /\ UNCHANGED <<mvars, files, lines, out, mu, cb, epc, gvars, nvars>>
    /\ UNCHANGED <<tg, tres, pc, concArg, ready, idx, sem, wg, taskErrors, cancelled, ret,
                   fnErrs, tg0>>

\* GetNode, tg.mu.Unlock(), and the call of fn.
WorkerReread(t) ==
    /\ wpc[t] = "spawned"
    /\ mu = Holder("task", t)
    /\ mu' = Free
    /\ wpc' = [wpc EXCEPT ![t] = "fn"]
    /\ calls' = [calls EXCEPT ![t] = @ + 1]
    /\ UNCHANGED <<mvars, files, lines, out, cb, epc, gvars, nvars>>
    /\ UNCHANGED <<tg, tres, pc, concArg, ready, idx, sem, wg, taskErrors, cancelled, ret,
                   fnErrs, tg0>>

\* The callback of t calls the API: it blocks in tg.mu.Lock().
CallbackWant(t) ==
    /\ wpc[t] = "fn"
    /\ cb[t] = "none"
    /\ cb' = [cb EXCEPT ![t] = "want"]
    /\ UNCHANGED <<mvars, tvars, rvars, files, lines, out, mu, epc, gvars, nvars>>

CallbackLock(t) ==
    /\ cb[t] = "want"
    /\ mu = Free
    /\ mu' = Holder("task", t)
    /\ cb' = [cb EXCEPT ![t] = "in"]
    /\ UNCHANGED <<mvars, tvars, rvars, files, lines, out, epc, gvars, nvars>>

\* The body of the call and tg.mu.Unlock().
CallbackCall(t) ==
    /\ cb[t] = "in"
    /\ mu = Holder("task", t)
    /\ \E call \in ApiCalls : tg' = ApiCall(tg, call)
    /\ mu' = Free
    /\ cb' = [cb EXCEPT ![t] = "done"]
    /\ UNCHANGED <<mvars, tres, rvars, files, lines, out, epc, gvars, nvars>>

\* fn returns (failed: with an error).
CallbackReturn(t, failed) ==
    /\ wpc[t] = "fn"
    /\ cb[t] \in {"none", "done"}
    /\ wpc' = [wpc EXCEPT ![t] = "ret"]
    /\ fnErrs' = IF failed THEN fnErrs \cup {t} ELSE fnErrs
    /\ UNCHANGED <<mvars, xvars>>
    /\ UNCHANGED <<tg, tres, pc, concArg, ready, idx, sem, wg, taskErrors, cancelled, ret,
                   calls, tg0>>

\* transitionLocked to Failed or Done, the append to taskErrors, and tg.mu.Unlock().
WorkerRecord(t) ==
    /\ wpc[t] = "ret"
    /\ mu = Holder("task", t)
    /\ tg' = transitionLocked(tg, t, IF t \in fnErrs THEN "Failed" ELSE "Done").g
    /\ taskErrors' = IF t \in fnErrs THEN Append(taskErrors, t) ELSE taskErrors
    /\ wpc' = [wpc EXCEPT ![t] = "rel"]
    /\ mu' = Free
    /\ UNCHANGED <<mvars, files, lines, out, cb, epc, gvars, nvars>>
    /\ UNCHANGED <<tres, pc, concArg, ready, idx, sem, wg, cancelled, ret, calls, fnErrs, tg0>>

\* Another goroutine calls the API while Run is under way.
OtherWant ==
    /\ pc \notin {"idle", "returned"}
    /\ epc = "idle"
    /\ epc' = "want"
    /\ UNCHANGED <<mvars, tvars, rvars, files, lines, out, mu, cb, gvars, nvars>>

OtherLock ==
    /\ epc = "want"
    /\ mu = Free
    /\ mu' = Holder("other", 0)
    /\ epc' = "in"
    /\ UNCHANGED <<mvars, tvars, rvars, files, lines, out, cb, gvars, nvars>>

OtherCall ==
    /\ epc = "in"
    /\ mu = Holder("other", 0)
    /\ \E call \in ApiCalls : tg' = ApiCall(tg, call)
    /\ mu' = Free
    /\ epc' = "done"
    /\ UNCHANGED <<mvars, tres, rvars, files, lines, out, cb, gvars, nvars>>

LockWorker(t) ==
    \/ WorkerLock(t)
    \/ WorkerReread(t)
    \/ CallbackWant(t)
    \/ CallbackLock(t)
    \/ CallbackCall(t)
    \/ \E failed \in BOOLEAN : CallbackReturn(t, failed)
    \/ WorkerRecord(t)
    \/ WorkerRelease(t)
    \/ WorkerDone(t)

LockWorkerStep == \E t \in IDs : LockWorker(t)

LockRunStep ==
    \/ RunLock \/ RunCollectLocked \/ RunCheckCtx \/ RunTransitionLocked \/ RunDispatch
    \/ RunWait \/ RunReturn

LockOtherStep == OtherLock \/ OtherCall

LockNext ==
    \/ LockAddTask \/ LockAddDependency \/ StartRun
    \/ LockRunStep \/ LockWorkerStep \/ OtherWant \/ LockOtherStep

SpecLock == Init /\ [][LockNext]_vars

\* The scheduler runs every goroutine that can take a step; a callback is free to
\* make no call, and the other goroutine is free not to start one.
FairLock ==
    /\ SpecLock
    /\ WF_vars(LockRunStep)
    /\ WF_vars(LockOtherStep)
    /\ \A t \in IDs :
          WF_vars(WorkerLock(t) \/ WorkerReread(t) \/ CallbackLock(t) \/ CallbackCall(t)
                  \/ (\E failed \in BOOLEAN : CallbackReturn(t, failed))
                  \/ WorkerRecord(t) \/ WorkerRelease(t) \/ WorkerDone(t))

\* ------------------------------------------------------------------ claims: Manager
Status(g, id) == GetNode(g, id).Data.Status

Range(seq) == {seq[i] : i \in DOMAIN seq}

\* The state table of the specification, as (from, to) pairs.
StateTable ==
    {<<"", "pending">>, <<"", "ready">>, <<"pending", "ready">>, <<"pending", "skipped">>,
     <<"ready", "running">>, <<"ready", "skipped">>, <<"running", "done">>,
     <<"running", "failed">>, <<"failed", "pending">>}

\* C1: Manager.Transition on an existing node of an open graph succeeds exactly for
\* the (old status, new status) pairs of the state table; every other pair fails
\* with an invalid-transition error.
C1_TransitionTable ==
    \A name \in DOMAIN graphs, id \in IDs, s \in Statuses :
        HasNode(graphs[name], id) =>
            \A order \in OutOrders(graphs, name, id, s) :
                LET r == TransitionCall(graphs, name, id, s, order)
                    old == Status(graphs[name], id)
                IN /\ (r.res.err = "") <=> (<<old, s>> \in StateTable)
                   /\ r.res.err \in {"", "invalid"}
                   /\ r.res.err = "" => /\ Status(r.graphs[name], id) = s
                                        /\ r.res.old = old /\ r.res.new = s

\* A retry (failed -> pending) was accepted.
C1_Witness ==
    /\ mres.op = "transition" /\ mres.err = ""
    /\ mres.old = "failed" /\ mres.new = "pending"
    /\ Status(graphs["g"], mres.id) = "pending"

\* C3: after a successful Transition(id, done), newly_ready is exactly the set of
\* nodes d with an edge id->d that were pending before the call and whose every
\* incoming dependency is done after it; exactly those nodes become ready and no
\* other node's status changes.
C3_NewlyReadyExact ==
    \A name \in DOMAIN graphs, id \in IDs :
        \A order \in OutOrders(graphs, name, id, "done") :
            LET r == TransitionCall(graphs, name, id, "done", order)
                g == graphs[name]
                h == r.graphs[name]
                expected == {d \in DOMAIN g.nodes :
                                /\ HasEdge(g, id, d)
                                /\ Status(g, d) = "pending"
                                /\ \A p \in DOMAIN g.nodes :
                                       HasEdge(g, p, d) => Status(h, p) = "done"}
            IN r.res.err = "" =>
                /\ Range(r.res.newlyReady) = expected
                /\ Len(r.res.newlyReady) = Cardinality(expected)
                /\ DOMAIN h.nodes = DOMAIN g.nodes
                /\ \A n \in DOMAIN g.nodes :
                      Status(h, n) = IF n = id THEN "done"
                                     ELSE IF n \in expected THEN "ready"
                                     ELSE Status(g, n)
                /\ [h EXCEPT !.nodes = g.nodes] = g

\* Node 1 went to done; its dependant 2 became ready while 3, which also waits for
\* 2, stayed pending.
C3_Witness ==
    /\ mres.op = "transition" /\ mres.err = "" /\ mres.new = "done" /\ mres.id = 1
    /\ mres.newlyReady = <<2>>
    /\ EdgePairs(graphs["g"]) = {<<1, 2>>, <<1, 3>>, <<2, 3>>}
    /\ Status(graphs["g"], 2) = "ready"
    /\ Status(graphs["g"], 3) = "pending"

\* C2: a rejected transition changes nothing. Whatever Manager.Transition is asked
\* (graph not open, node missing, pair not in the table) and whatever
\* TaskGraph.Transition is asked (task missing, pair not in the table), a call that
\* returns an error leaves every status, edge and metadata entry as it was and
\* promotes no dependant.
C2_RejectedChangesNothing ==
    /\ \A name \in Names \cup {"h"}, id \in 0..NumNodes, s \in Statuses :
          \A order \in OutOrders(graphs, name, id, s) :
              LET r == TransitionCall(graphs, name, id, s, order)
              IN r.res.err # "" => r.graphs = graphs /\ r.res.newlyReady = <<>>
    /\ \A id \in 0..NumNodes, t \in TaskStates :
          LET r == transitionLocked(tg, id, t)
          IN r.err # "" => r.g = tg

\* Manager.Transition(2, done) was rejected on a graph where node 1 is done, node 2
\* is pending with metadata and depends on node 1: node 2 was not promoted and its
\* metadata is still there.
C2_Witness ==
    /\ mres.op = "transition" /\ mres.err = "invalid"
    /\ "g" \in DOMAIN graphs
    /\ HasEdge(graphs["g"], 1, 2)
    /\ Status(graphs["g"], 1) = "done"
    /\ Status(graphs["g"], 2) = "pending"
    /\ NodeMeta(graphs["g"], 2) # EmptyMap
    /\ TransitionCall(graphs, "g", 2, "done", <<>>).res.err = "invalid"

\* ------------------------------------------------------------------ claims: TaskGraph
\* TaskState.String() in lower case: the status of the Manager's table that a task
\* state corresponds to.
StatusOf(state) ==
    CASE state = "Pending" -> "pending"
      [] state = "Ready" -> "ready"
      [] state = "Running" -> "running"
      [] state = "Done" -> "done"
      [] state = "Failed" -> "failed"
      [] state = "Skipped" -> "skipped"

\* C4: TaskGraph.Transition accepts a pair of task states exactly when the Manager's
\* table accepts the corresponding pair of statuses; in particular a Failed task
\* may be sent back to Pending.
C4_SameTableAsManager ==
    \A id \in DOMAIN tg.nodes, t \in TaskStates :
        (transitionLocked(tg, id, t).err = "")
            <=> TransitionAllowed(StatusOf(State(tg, id)), StatusOf(t))

\* The tasks that task b depends on.
Deps(g, b) == {e.From : e \in InEdges(g, b)}

AllIdle == \A t \in IDs : wpc[t] = "idle"

AllPending(g) == \A t \in DOMAIN g.nodes : State(g, t) = "Pending"

\* No set of nodes in which every node has a dependency inside the set.
Acyclic(g) ==
    \A S \in SUBSET (DOMAIN g.nodes) :
        S # {} => \E n \in S : Deps(g, n) \cap S = {}

InCallback == {t \in IDs : wpc[t] = "fn"}

\* C5: Run executes in dependency order: in every run, on every task graph, for
\* every concurrency value and every interleaving, a task whose callback has been
\* started has all the tasks it depends on in state Done.
C5_DependencyOrder ==
    \A b \in IDs : calls[b] > 0 => \A a \in Deps(tg, b) : State(tg, a) = "Done"

\* C6: the number of callbacks executing at the same moment never exceeds
\* max(1, concurrency); an argument below 1 behaves as 1.
C6_ConcurrencyBound ==
    Cardinality(InCallback) <= (IF concArg < 1 THEN 1 ELSE concArg)

\* Two callbacks execute under concurrency 2 while Run waits for a slot for the third
\* task of the batch.
C6_Witness ==
    /\ concArg = 2
    /\ Cardinality(InCallback) = 2
    /\ pc = "sem"
    /\ Len(ready) = 3

\* The preconditions of C7 on the graph Run was called on.
RunPre == pc # "idle" /\ Acyclic(tg0) /\ AllPending(tg0)

\* C7: on an acyclic graph whose tasks are all Pending, with callbacks that return nil
\* and no cancellation, Run terminates and returns nil, having invoked the callback
\* exactly once for every task and left every task Done.
C7_RunCompletes ==
    /\ [](RunPre => \A t \in IDs : calls[t] <= 1)
    /\ [](RunPre /\ ~cancelled /\ fnErrs = {} /\ pc = "returned" =>
            /\ ret = NilResult
            /\ \A t \in DOMAIN tg.nodes : State(tg, t) = "Done" /\ calls[t] = 1)
    /\ (RunPre /\ pc = "collect") ~> (pc = "returned" \/ cancelled \/ fnErrs # {})

\* Run returned nil on the chain 1 -> 2 -> 3 under concurrency 2, every task Done
\* after one call of the callback.
C7_Witness ==
    /\ pc = "returned" /\ ret = NilResult /\ ~cancelled /\ fnErrs = {}
    /\ RunPre
    /\ concArg = 2
    /\ EdgePairs(tg) = {<<1, 2>>, <<2, 3>>}
    /\ \A t \in IDs : HasNode(tg, t) /\ State(tg, t) = "Done" /\ calls[t] = 1

\* C8: when a callback returned an error in a run that was not cancelled: the task is
\* Failed, every task of the batch ran to completion, Run returns a non-nil error,
\* every task that was not started has the state it had before Run, no task that
\* depends on a failed task was started and none is Skipped.
C8_FailureStopsRun ==
    (pc = "returned" /\ ret.kind # "ctx" /\ fnErrs # {}) =>
        /\ \A t \in fnErrs : State(tg, t) = "Failed"
        /\ \A t \in Range(ready) : calls[t] = 1 /\ State(tg, t) \in {"Done", "Failed"}
        /\ ret.kind = "join"
        /\ \A t \in DOMAIN tg.nodes :
              /\ calls[t] = 0 => State(tg, t) = State(tg0, t)
              /\ Deps(tg, t) \cap fnErrs # {} => calls[t] = 0
              /\ State(tg, t) # "Skipped"

\* What C9 says of a returned value: the join of exactly the errors of the callbacks,
\* nil when there is none.
IsJoinOfCallbackErrors(r) ==
    IF fnErrs = {} THEN r = NilResult
    ELSE /\ r.kind = "join"
         /\ Range(r.errs) = fnErrs
         /\ Len(r.errs) = Cardinality(fnErrs)

\* C9 (as stated): once Run has returned and every dispatched callback has finished,
\* the returned value is the join of exactly the errors the callbacks returned, also
\* in runs whose context was cancelled.
C9_JoinOfCallbackErrors ==
    (pc = "returned" /\ AllIdle) => IsJoinOfCallbackErrors(ret)

\* C9 (amended): Run returns the context's error alone when it found the context
\* cancelled at the check before a dispatch; in every other run it returns, after
\* every dispatched callback has finished, the join of exactly their errors.
C9_JoinUnlessCancelled ==
    pc = "returned" =>
        IF ret.kind = "ctx"
        THEN cancelled /\ ret.errs = <<>> /\ idx \in 1..Len(ready)
        ELSE AllIdle /\ IsJoinOfCallbackErrors(ret)

\* Run returned the context's error although the callback of a task had failed.
C9_Witness ==
    /\ pc = "returned" /\ ret.kind = "ctx"
    /\ AllIdle
    /\ fnErrs # {}

MovedToRunning ==
    \E t \in IDs :
        /\ HasNode(tg', t) /\ State(tg', t) = "Running"
        /\ ~(HasNode(tg, t) /\ State(tg, t) = "Running")

Dispatched == \E t \in IDs : wpc[t] = "idle" /\ wpc'[t] = "spawned"

\* C10: the context is checked before each dispatch: a task is moved to Running only
\* after a check that found the context live, and a check that finds it cancelled
\* makes Run return the context's error. From then on Run moves no task to Running
\* and dispatches no callback, while the callbacks dispatched before run on: each of
\* their tasks eventually reaches Done or Failed.
C10_Cancellation ==
    /\ [][MovedToRunning => pc = "trans"]_vars
    /\ [][(pc' = "trans" /\ pc # "trans") => (pc = "ctx" /\ ~cancelled)]_vars
    /\ [][(pc = "ctx" /\ cancelled /\ pc' # pc) => (pc' = "returned" /\ ret'.kind = "ctx")]_vars
    /\ [][ret.kind = "ctx" => (~MovedToRunning /\ ~Dispatched /\ pc' = "returned")]_vars
    /\ \A t \in IDs :
          (ret.kind = "ctx" /\ wpc[t] \in {"spawned", "fn"})
              ~> (wpc[t] = "idle" /\ calls[t] = 1 /\ State(tg, t) \in {"Done", "Failed"})

\* Run returned on cancellation while the callback of task 1 was executing and
\* task 2, collected in the same batch, had not been dispatched.
C10_Witness ==
    /\ pc = "returned" /\ ret.kind = "ctx"
    /\ wpc[1] = "fn" /\ State(tg, 1) = "Running"
    /\ HasNode(tg, 2) /\ State(tg, 2) = "Ready" /\ calls[2] = 0
    /\ ready = <<1, 2>>

\* C12: in every state reachable by AddTask, AddDependency, Transition and Ready,
\* every task that TaskGraph.Ready() returns has all of its dependencies Done.
C12_ReadyHasDepsDone ==
    LET r == readyLocked(tg)
    IN \A id \in Range(r.ready) : allDepsDone(r.g, id)

\* ------------------------------------------------------------------ claims: TaskGraph.mu
\* C11: no goroutine of Run holds TaskGraph.mu across a callback: the goroutine of a
\* task holds it only in its two critical sections and inside a call that its callback
\* makes, the goroutine of Run only in its two critical sections; so every call of
\* GetTask, Ready or Transition made by a callback or by another goroutine while
\* callbacks run gets the lock and completes, and Run returns.
C11_NoLockAcrossCallback ==
    /\ [](mu.who = "task" => wpc[mu.t] \in {"spawned", "ret"} \/ cb[mu.t] = "in")
    /\ [](mu.who = "run" => pc \in {"collect", "trans"})
    /\ \A t \in IDs : (cb[t] = "want") ~> (cb[t] = "done")
    /\ (epc = "want") ~> (epc = "done")
    /\ (pc = "collect") ~> (pc = "returned")

\* The callback of task 1 has completed a call of the API and is still executing, as
\* is the callback of task 2, and another goroutine has completed a call too.
C11_Witness ==
    /\ wpc[1] = "fn"
    /\ cb[1] = "done"
    /\ wpc[2] = "fn"
    /\ epc = "done"
    /\ mu = Free

\* ------------------------------------------------------------------ claims: Manager and disk
\* C18: Open(name) on a name that is in the cache succeeds, returns the info of the
\* cached graph and leaves the cache as it is, whatever the file of that name holds;
\* so the mutations made since the first Open stay visible after any number of Opens.
C18_OpenCachedKeepsGraph ==
    \A name \in DOMAIN graphs :
        LET r == OpenCall(graphs, files, name)
        IN /\ r.graphs = graphs
           /\ r.res.err = ""
           /\ r.res.info = <<graphInfo(name, graphs[name])>>

\* Open has just returned the info of a cached graph that differs from its saved file.
C18_Witness ==
    /\ mres.op = "open"
    /\ mres.err = ""
    /\ "g" \in DOMAIN graphs
    /\ "g" \in DOMAIN files
    /\ mres.info = <<graphInfo("g", graphs["g"])>>
    /\ mres.info[1].NodeCount # Len(files["g"].graph.nodes)

\* The requests that SpecDisk sends to Upsert, and to Remove for the graph name.
UpsertRequests ==
    {[Nodes |-> <<UpsertNode(id, "", status, meta, <<>>)>>, Edges |-> <<>>] :
        id \in DiskIDs, status \in DiskStatuses \cup {""},
        meta \in {EmptyMap} \cup {(k :> v) : k \in MetaKeys, v \in MetaValues}}
    \cup {[Nodes |-> <<>>, Edges |-> <<UpsertEdge(id, to, "", 1, EmptyMap, <<>>)>>] :
            id \in DiskIDs, to \in DiskIDs}

RemoveRequests(name) ==
    {[Graph |-> name, Nodes |-> <<id>>, Edges |-> <<>>] : id \in DiskIDs}
    \cup {[Graph |-> name, Nodes |-> <<>>, Edges |-> <<<<id, to>>>>] :
            id \in DiskIDs, to \in DiskIDs}

\* C19: on a name that is not in the cache, Save, Summary, Upsert, ReadNodes, Transition
\* and Remove fail with the graph-not-open error and leave the cache and the files as
\* they are.
C19_NotOpenChangesNothing ==
    \A name \in DiskNames \ DOMAIN graphs :
        /\ LET r == SaveCall(graphs, files, name)
           IN r.res.err = "notopen" /\ r.files = files
        /\ SummaryCall(graphs, name).err = "notopen"
        /\ ReadNodesCall(graphs, name).err = "notopen"
        /\ \A req \in UpsertRequests :
              LET r == UpsertCall(graphs, name, req)
              IN r.res.err = "notopen" /\ r.graphs = graphs
        /\ \A id \in DiskIDs, status \in Statuses :
              LET r == TransitionCall(graphs, name, id, status, <<>>)
              IN r.res.err = "notopen" /\ r.graphs = graphs
        /\ \A req \in RemoveRequests(name) :
              LET r == RemoveCall(graphs, req)
              IN r.res.err = "notopen" /\ r.graphs = graphs

\* Save has just failed on "g", which has a file on disk and is not cached, while "h"
\* is cached.
C19_Witness ==
    /\ mres.op = "save"
    /\ mres.err = "notopen"
    /\ "h" \in DOMAIN graphs
    /\ "g" \notin DOMAIN graphs
    /\ "g" \in DOMAIN files

\* C20: Delete(name) succeeds whether or not the name is cached or saved, and leaves
\* neither a cache entry nor a file; after it Save, Summary, Upsert, ReadNodes,
\* Transition and Remove on the name fail with graph-not-open, List does not report the
\* name, and Open(name) caches a new empty directed graph.
C20_DeleteForgets ==
    \A name \in DiskNames :
        LET d == DeleteCall(graphs, files, name)
            o == OpenCall(d.graphs, d.files, name)
            l == ListCall(d.graphs, d.files)
        IN /\ d.res.err = ""
           /\ name \notin DOMAIN d.graphs
           /\ name \notin DOMAIN d.files
           /\ SaveCall(d.graphs, d.files, name).res.err = "notopen"
           /\ SummaryCall(d.graphs, name).err = "notopen"
           /\ ReadNodesCall(d.graphs, name).err = "notopen"
           /\ \A req \in UpsertRequests : UpsertCall(d.graphs, name, req).res.err = "notopen"
           /\ \A id \in DiskIDs, status \in Statuses :
                 TransitionCall(d.graphs, name, id, status, <<>>).res.err = "notopen"
           /\ \A req \in RemoveRequests(name) : RemoveCall(d.graphs, req).res.err = "notopen"
           /\ \A i \in DOMAIN l.info : l.info[i].Name # name
           /\ o.res.err = ""
           /\ o.graphs[name] = NewGraph(TRUE)
           /\ o.res.info = <<[Name |-> name, NodeCount |-> 0, EdgeCount |-> 0,
                              Directed |-> TRUE]>>

\* Delete has just removed "g" while "h" stays cached, with a node, and saved.
C20_Witness ==
    /\ mres.op = "delete"
    /\ mres.err = ""
    /\ "g" \notin DOMAIN graphs
    /\ "g" \notin DOMAIN files
    /\ "h" \in DOMAIN graphs
    /\ "h" \in DOMAIN files
    /\ Order(graphs["h"]) > 0

\* ------------------------------------------------------------------ claims: RPC server
Last(seq) == seq[Len(seq)]

\* The ids of a sequence of lines or responses, in order.
IdsOf(seq) == [i \in DOMAIN seq |-> seq[i].id]

IsParseError(resp) == resp.kind = "error" /\ resp.code = CodeParseError /\ resp.id = 0

\* C13: the server writes no response for a request without id, whatever its method:
\* the output holds at most one response per unparsable line and per request with id.
C13_NoResponseWithoutId ==
    Len(out) <= Cardinality({i \in DOMAIN lines :
                                \/ lines[i].kind = "garbage"
                                \/ lines[i].kind = "request" /\ lines[i].id # 0})

\* C14 as stated: the ids of the requests that carry one, in input order, are the ids
\* of the responses that carry one, in output order, whatever the method.
C14_EveryIdAnswered ==
    IdsOf(SelectSeq(lines, LAMBDA l : l.kind = "request" /\ l.id # 0))
        = IdsOf(SelectSeq(out, LAMBDA r : r.id # 0))

\* C14: every request that carries an id and whose method is not
\* notifications/initialized is answered by exactly one response with the same id, and
\* these responses come in the order of their requests; notifications/initialized is
\* never answered.
C14_EveryIdAnsweredButInitialized ==
    IdsOf(SelectSeq(lines, LAMBDA l : /\ l.kind = "request"
                                      /\ l.id # 0
                                      /\ l.method # "notifications/initialized"))
        = IdsOf(SelectSeq(out, LAMBDA r : r.id # 0))

\* Three requests with ids 2, 1 and 2, the second one notifications/initialized, were
\* answered by two responses with ids 2 and 2.
C14_Witness ==
    /\ Len(lines) = 3
    /\ \A i \in 1..3 : lines[i].kind = "request"
    /\ IdsOf(lines) = <<2, 1, 2>>
    /\ lines[2].method = "notifications/initialized"
    /\ lines[1].method = "tools/call"
    /\ lines[3].method = "tools/list"
    /\ IdsOf(out) = <<2, 2>>

\* C15: a tools/call that names a registered tool is answered by a result, never by a
\* JSON-RPC error; isError is set exactly when the tool handler returned an error, and
\* then the text block is the error message.
C15_ToolErrorsAreResults ==
    \A id \in RpcIDs, p \in RpcParams :
        (p.ok /\ p.name \in ToolNames) =>
            LET h == handle(graphs, files, Request(id, "tools/call", p))
                t == CallTool(graphs, files, p.name, p.arguments)
            IN /\ ~h.none
               /\ h.resp.id = id
               /\ h.resp.kind = "call"
               /\ h.resp.code = 0
               /\ h.resp.isError <=> t.res.err # ""
               /\ h.resp.isError => h.resp.text = t.res.err
               /\ ~h.resp.isError => h.resp.value = t.res

\* save_graph on a name that was never opened has just been answered by a result with
\* isError and the not-open message.
C15_Witness ==
    /\ lines # <<>>
    /\ out # <<>>
    /\ Last(lines).method = "tools/call"
    /\ Last(lines).params.name = "save_graph"
    /\ Last(out).kind = "call"
    /\ Last(out).isError
    /\ Last(out).text = "notopen"
    /\ Last(out).code = 0

\* C16: an unregistered method is answered with -32601; a tools/call whose params do
\* not decode or whose tool is not registered, with -32602; neither changes the cache
\* or the files.
C16_EnvelopeErrors ==
    \A id \in RpcIDs :
        /\ LET h == handle(graphs, files, Request(id, "bogus/method", NoParams))
           IN /\ ~h.none
              /\ h.resp = ErrorResponse(id, CodeMethodNotFound)
              /\ h.graphs = graphs
              /\ h.files = files
        /\ \A p \in RpcParams :
              (~p.ok \/ p.name \notin ToolNames) =>
                  LET h == handle(graphs, files, Request(id, "tools/call", p))
                  IN /\ ~h.none
                     /\ h.resp = ErrorResponse(id, CodeInvalidParams)
                     /\ h.graphs = graphs
                     /\ h.files = files

\* A call of an unknown tool has just been answered with -32602, on a server whose
\* Manager holds a graph with a node.
C16_Witness ==
    /\ lines # <<>>
    /\ out # <<>>
    /\ Last(lines).method = "tools/call"
    /\ Last(lines).params.name = "no_such_tool"
    /\ Last(out) = ErrorResponse(Last(lines).id, CodeInvalidParams)
    /\ "g" \in DOMAIN graphs
    /\ Order(graphs["g"]) = 1

\* Server.Run on a whole input, from the state st.
RECURSIVE RunLines(_, _)
RunLines(st, ls) ==
    IF ls = <<>> THEN st
    ELSE LET next == CHOOSE r \in {HandleLine(st, Head(ls))} : TRUE
         IN RunLines(next, Tail(ls))

\* C17: each line that is not JSON adds exactly one response, with id null and code
\* -32700, and nothing else: the cache, the files and the other responses are those of
\* a run on the same input without the unparsable lines.
C17_ParseErrorSkipped ==
    LET good == SelectSeq(lines, LAMBDA l : l.kind # "garbage")
        r == RunLines([graphs |-> EmptyMap, files |-> EmptyMap, out |-> <<>>], good)
        cur == [graphs |-> graphs, files |-> files, out |-> out]
    IN /\ r.graphs = graphs
       /\ r.files = files
       /\ r.out = SelectSeq(out, LAMBDA x : ~IsParseError(x))
       /\ Len(SelectSeq(out, IsParseError)) = Len(lines) - Len(good)
       /\ HandleLine(cur, GarbageLine) =
             [cur EXCEPT !.out = Append(out, ErrorResponse(0, CodeParseError))]

\* open_graph, then a line that is not JSON, then an upsert that succeeded.
C17_Witness ==
    /\ Len(lines) = 3
    /\ lines[1].params.name = "open_graph"
    /\ lines[2].kind = "garbage"
    /\ lines[3].params.name = "upsert"
    /\ Len(out) = 3
    /\ IsParseError(out[2])
    /\ out[3].kind = "call"
    /\ ~out[3].isError
    /\ "g" \in DOMAIN graphs
    /\ Order(graphs["g"]) = 1

\* ------------------------------------------------------------------ claims: persistence
\* What a caller can read from a graph: the node IDs with their payloads, the edges with
\* data and weight, and the metadata keys of every node and edge.
SameContent(g1, g2) ==
    /\ g1.Directed = g2.Directed
    /\ DOMAIN g1.nodes = DOMAIN g2.nodes
    /\ \A id \in DOMAIN g1.nodes :
          /\ GetNode(g1, id) = GetNode(g2, id)
          /\ DOMAIN NodeMeta(g1, id) = DOMAIN NodeMeta(g2, id)
    /\ \A p \in IDs \X IDs :
          /\ HasEdge(g1, p[1], p[2]) = HasEdge(g2, p[1], p[2])
          /\ HasEdge(g1, p[1], p[2]) =>
                /\ GetEdge(g1, p[1], p[2]) = GetEdge(g2, p[1], p[2])
                /\ DOMAIN EdgeMeta(g1, p[1], p[2]) = DOMAIN EdgeMeta(g2, p[1], p[2])

\* The graph that a Manager without a cache entry for name gets from Open(name).
Reopened(fs, name) == OpenCall(EmptyMap, fs, name)

\* C21: after Save(name), a Manager that does not have name cached and opens it gets
\* the graph as it was saved: same node IDs, labels and statuses, same edges with label
\* and weight, same metadata keys.  Only Save and Delete change a file, so what is
\* changed in the cache after the Save is not seen by that Open.
C21_SaveThenOpen ==
    /\ [](\A name \in DOMAIN graphs :
             LET r == Reopened(SaveCall(graphs, files, name).files, name)
             IN /\ r.res.err = ""
                /\ SameContent(r.graphs[name], graphs[name])
                /\ r.res.info = <<graphInfo(name, graphs[name])>>)
    /\ [][files' # files => mres'.op \in {"save", "delete"} /\ mres'.err = ""]_vars

\* A new Manager has just opened "g" from its file and got a node with a status and a
\* metadata entry, while "h" was saved with a node and an edge.
C21_Witness ==
    /\ mres.op = "open"
    /\ "g" \in DOMAIN files
    /\ "g" \in DOMAIN graphs
    /\ graphs["g"] = Unmarshal(files["g"]).g
    /\ \E id \in DOMAIN graphs["g"].nodes :
          /\ GetNode(graphs["g"], id).Data.Status # ""
          /\ NodeMeta(graphs["g"], id) # EmptyMap
    /\ "h" \in DOMAIN files
    /\ Len(files["h"].graph.edges) > 0

\* ------------------------------------------------------------------ claims: filters
IsNumber(v) == v.type \in {"int", "float64"}

\* C29: gt, gte, lt and lte are false when the key is absent from the node or one of the
\* two operands is not a number, and are the comparison of the two numbers otherwise.
C29_NumericOps ==
    filt.f.Op \in {"gt", "gte", "lt", "lte"} =>
        LET r == resolveKey(filt.store, filt.data, filt.f.Key)
            a == r.val.v
            b == filt.f.Value.v
        IN IF ~r.found \/ ~IsNumber(r.val) \/ ~IsNumber(filt.f.Value)
           THEN fres = FALSE
           ELSE fres = CASE filt.f.Op = "gt" -> a > b
                         [] filt.f.Op = "gte" -> a >= b
                         [] filt.f.Op = "lt" -> a < b
                         [] filt.f.Op = "lte" -> a <= b

\* ------------------------------------------------------------------ claims: Graph
\* C24: in a graph made by AddNode, AddEdge, RemoveNode, RemoveEdge and Copy, directed
\* or not, every edge of the out-index and of the in-index joins two existing nodes, the
\* edge a->b is in the out-index of a exactly when it is in the in-index of b, with the
\* same data and weight, and AddEdge with a missing endpoint fails and changes nothing.
C24_Structure ==
    /\ \A a \in DOMAIN gr.out : \A b \in DOMAIN gr.out[a] :
          /\ HasNode(gr, a) /\ HasNode(gr, b)
          /\ b \in DOMAIN gr.in /\ a \in DOMAIN gr.in[b]
          /\ gr.in[b][a] = gr.out[a][b]
          /\ gr.out[a][b].From = a /\ gr.out[a][b].To = b
    /\ \A b \in DOMAIN gr.in : \A a \in DOMAIN gr.in[b] :
          /\ HasNode(gr, a) /\ HasNode(gr, b)
          /\ a \in DOMAIN gr.out /\ b \in DOMAIN gr.out[a]
    /\ \A from \in GraphIDs, to \in GraphIDs, w \in GraphWeights :
          ~HasNode(gr, from) \/ ~HasNode(gr, to) =>
              /\ AddEdge(gr, from, to, EdgeData("x"), w).err # ""
              /\ AddEdge(gr, from, to, EdgeData("x"), w).g = gr

\* AddEdge has just failed on a missing endpoint, in a graph that holds an edge.
C24_Witness ==
    /\ gres.op = "AddEdge"
    /\ gres.err # ""
    /\ Size(gr) > 0
    /\ Order(gr) < Cardinality(GraphIDs)

\* The edges and stores of g in which the node id takes part.
IncidentPairs(id) == {p \in IDs \X IDs : p[1] = id \/ p[2] = id}

\* C25: RemoveNode(a) on an existing node removes a, every edge incident to a and the
\* metadata stores of a and of those edges, and leaves the other nodes, edges and
\* stores as they are; a node a added again has no edges and empty metadata, and so
\* has an edge of a that is added again.
C25_RemoveNodeCleans ==
    \A a \in DOMAIN gr.nodes :
        LET g1 == RemoveNode(gr, a)
            g2 == AddNode(g1, a, NodeData("A", ""))
        IN /\ ~HasNode(g1, a)
           /\ \A p \in IncidentPairs(a) : ~HasEdge(g1, p[1], p[2])
           /\ a \notin DOMAIN g1.nodeMeta
           /\ \A p \in IncidentPairs(a) : p \notin DOMAIN g1.edgeMeta
           /\ \A id \in DOMAIN gr.nodes \ {a} :
                 /\ HasNode(g1, id) /\ GetNode(g1, id) = GetNode(gr, id)
                 /\ NodeMeta(g1, id) = NodeMeta(gr, id)
           /\ \A p \in (IDs \X IDs) \ IncidentPairs(a) :
                 /\ HasEdge(g1, p[1], p[2]) = HasEdge(gr, p[1], p[2])
                 /\ HasEdge(gr, p[1], p[2]) =>
                       GetEdge(g1, p[1], p[2]) = GetEdge(gr, p[1], p[2])
                 /\ EdgeMeta(g1, p[1], p[2]) = EdgeMeta(gr, p[1], p[2])
           /\ OutEdges(g2, a) = {} /\ InEdges(g2, a) = {}
           /\ NodeMeta(g2, a) = EmptyMap
           /\ \A p \in IncidentPairs(a) :
                 HasNode(g2, p[1]) /\ HasNode(g2, p[2]) =>
                     EdgeMeta(AddEdge(g2, p[1], p[2], EdgeData("x"), 1).g, p[1], p[2])
                         = EmptyMap

\* C26: AddNode on an ID that exists replaces the payload of that node and nothing
\* else: both indices, the other nodes and all metadata stores are as before.
C26_AddNodeKeepsEdgesAndMeta ==
    \A id \in DOMAIN gr.nodes, data \in GraphPayloads :
        LET g1 == AddNode(gr, id, data)
        IN /\ GetNode(g1, id) = [ID |-> id, Data |-> data]
           /\ DOMAIN g1.nodes = DOMAIN gr.nodes
           /\ \A other \in DOMAIN gr.nodes \ {id} : GetNode(g1, other) = GetNode(gr, other)
           /\ g1.out = gr.out
           /\ g1.in = gr.in
           /\ OutEdges(g1, id) = OutEdges(gr, id) /\ InEdges(g1, id) = InEdges(gr, id)
           /\ g1.nodeMeta = gr.nodeMeta
           /\ g1.edgeMeta = gr.edgeMeta

\* AddNode has just been called on a node that has an outgoing edge, an incoming edge
\* from another node and a metadata entry.
C26_Witness ==
    /\ gres.op = "AddNode"
    /\ HasNode(gr, gres.a)
    /\ \E other \in DOMAIN gr.nodes \ {gres.a} :
          HasEdge(gr, gres.a, other) /\ HasEdge(gr, other, gres.a)
    /\ NodeMeta(gr, gres.a) # EmptyMap

\* ------------------------------------------------------------------ claims: snapshot codec
\* No store is left for a node or an edge that is not in the graph.
NoOrphans(g) ==
    /\ DOMAIN g.nodeMeta \subseteq DOMAIN g.nodes
    /\ DOMAIN g.edgeMeta \subseteq OutPairs(g)

RECURSIVE addNodes(_, _, _)
addNodes(g, from, ids) ==
    IF ids = <<>> THEN g
    ELSE addNodes(AddNode(g, Head(ids), GetNode(from, Head(ids)).Data), from, Tail(ids))

RECURSIVE addEdges(_, _, _)
addEdges(g, from, pairs) ==
    IF pairs = <<>> THEN g
    ELSE LET e == GetEdge(from, Head(pairs)[1], Head(pairs)[2])
         IN addEdges(AddEdge(g, e.From, e.To, e.Data, e.Weight).g, from, Tail(pairs))

\* A graph with the nodes, edges and metadata of g, made by AddNode in the order ids,
\* AddEdge in the order pairs (for an undirected graph each edge in both directions,
\* in either order) and Set on the stores.
Rebuild(g, ids, pairs) ==
    [addEdges(addNodes(NewGraph(g.Directed), g, ids), g, pairs)
        EXCEPT !.nodeMeta = g.nodeMeta, !.edgeMeta = g.edgeMeta]

C28_RoundTrip ==
    LET r == Unmarshal(Marshal(gr))
    IN /\ r.err = ""
       /\ Marshal(r.g) = Marshal(gr)
       /\ SameContent(r.g, gr)


\* ------------------------------------------------------------------ claims: Upsert
\* The result of applying req to g twice in a row: [first, second].
Twice(g, req) ==
    LET s1 == UpsertApply(g, req)
    IN [first |-> s1, second |-> UpsertApply(s1.g, req)]

NoStructuralCounts(res) ==
    /\ res.NodesCreated = 0 /\ res.NodesUpdated = 0
    /\ res.EdgesCreated = 0 /\ res.EdgesUpdated = 0

\* The entries that req lists for the same node or the same edge do not disagree: no
\* two different non-empty labels or statuses, no two different non-zero weights.
Consistent(req) ==
    /\ \A i, j \in DOMAIN req.Nodes :
          req.Nodes[i].ID = req.Nodes[j].ID =>
             /\ req.Nodes[i].Label = "" \/ req.Nodes[j].Label = ""
                \/ req.Nodes[i].Label = req.Nodes[j].Label
             /\ req.Nodes[i].Status = "" \/ req.Nodes[j].Status = ""
                \/ req.Nodes[i].Status = req.Nodes[j].Status
    /\ \A i, j \in DOMAIN req.Edges :
          req.Edges[i].From = req.Edges[j].From /\ req.Edges[i].To = req.Edges[j].To =>
             /\ req.Edges[i].Label = "" \/ req.Edges[j].Label = ""
                \/ req.Edges[i].Label = req.Edges[j].Label
             /\ req.Edges[i].Weight = 0 \/ req.Edges[j].Weight = 0
                \/ req.Edges[i].Weight = req.Edges[j].Weight

\* C22 (as stated): applying any request a second time right after the first leaves the
\* graph unchanged and reports NodesCreated, NodesUpdated, EdgesCreated and
\* EdgesUpdated all 0, also when the request lists a node or an edge more than once.
C22_UpsertIdempotent ==
    \A name \in DOMAIN graphs : \A req \in BatchRequests :
       LET t == Twice(graphs[name], req)
       IN t.second.g = t.first.g /\ NoStructuralCounts(t.second.res)

\* C22 (amended): the second application leaves the graph unchanged and creates
\* nothing for every request; it reports no update when the entries listed for the
\* same node or edge do not disagree, and reports an update again when they do.
C22_UpsertIdempotentConsistent ==
    \A name \in DOMAIN graphs : \A req \in BatchRequests :
       LET t == Twice(graphs[name], req)
       IN /\ t.second.g = t.first.g
          /\ t.second.res.NodesCreated = 0 /\ t.second.res.EdgesCreated = 0
          /\ Consistent(req) => NoStructuralCounts(t.second.res)
          /\ ~Consistent(req) =>
                t.second.res.NodesUpdated + t.second.res.EdgesUpdated > 0

\* A request that lists the node 1 twice without disagreeing was sent to a graph that
\* already held what it asks for: nothing was created or updated.
C22_Witness ==
    /\ mres.op = "upsert" /\ mres.err = ""
    /\ Len(ureq.Nodes) = 2 /\ ureq.Nodes[1].Label = "A" /\ ureq.Nodes[2].Label = "A"
    /\ NoStructuralCounts(mres.counts)
    /\ "g" \in DOMAIN graphs /\ HasNode(graphs["g"], 1)
    /\ GetNode(graphs["g"], 1).Data.Label = "A"

Reached == ready[idx]

\* The step is the critical section of Run around transitionLocked(task.ID, Running).
RunTransitionStep == pc = "trans" /\ mu = Holder("run", 0) /\ mu' = Free

\* C30: Run invokes the callback only for a task whose transition from Ready to Running
\* it performed itself: a callback is invoked only by the goroutine that Run started
\* for the task, Run starts it only after its own transition succeeded, and when
\* another caller has moved the collected task out of Ready before Run reaches it,
\* the transition of Run is rejected, the task keeps its state and no goroutine is
\* started for it; a skipped task never has its callback invoked.
C30_RunOwnsTransition ==
    /\ [][\A t \in IDs : calls'[t] # calls[t] =>
             wpc[t] = "spawned" /\ calls'[t] = calls[t] + 1]_vars
    /\ [][\A t \in IDs : wpc'[t] = "spawned" /\ wpc[t] # "spawned" =>
             pc = "sem" /\ Reached = t]_vars
    /\ [][pc' = "sem" /\ pc # "sem" =>
             /\ RunTransitionStep
             /\ State(tg, Reached) = "Ready" /\ State(tg', Reached) = "Running"
             /\ idx' = idx]_vars
    /\ [][RunTransitionStep /\ State(tg, Reached) # "Ready" =>
             tg' = tg /\ pc' # "sem" /\ idx' = idx + 1 /\ wpc' = wpc /\ calls' = calls]_vars
    /\ [](\A t \in DOMAIN tg.nodes : State(tg, t) = "Skipped" =>
             calls[t] = 0 /\ wpc[t] = "idle")

\* Run collected the tasks 1 and 2; another caller skipped task 2 before Run reached
\* it; Run has returned after the callback of task 1 only, and task 2 is still Skipped.
C30_Witness ==
    /\ pc = "returned"
    /\ ready = <<1, 2>>
    /\ epc = "done"
    /\ State(tg, 2) = "Skipped"
    /\ calls[2] = 0
    /\ calls[1] = 1
    /\ State(tg, 1) = "Done"


\* ------------------------------------------------------------------ claims: Run, order of a batch
\* Run is inside the loop over the batch it collected.
InBatch == pc \in {"ctx", "trans", "sem", "wait"}

\* The positions of the batch whose task Run has not moved to Running yet.
NotStarted ==
    {i \in DOMAIN ready : i > idx \/ (i = idx /\ pc \in {"ctx", "trans"})}

\* C31: within one batch of Run the tasks are moved to Running and dispatched in
\* ascending order of task ID, the order of Ready: the batch is in ascending order, a
\* task that Run has not reached is still Ready with no goroutine, and goroutines exist
\* only for tasks Run has passed; the order in which they finish is not constrained.
C31_BatchStartsInIDOrder ==
    InBatch =>
       /\ \A i, j \in DOMAIN ready : i < j => ready[i] < ready[j]
       /\ \A i \in NotStarted : State(tg, ready[i]) = "Ready" /\ wpc[ready[i]] = "idle"
       /\ \A t \in IDs : wpc[t] # "idle" =>
             \E i \in DOMAIN ready : ready[i] = t /\ i \notin NotStarted
                                     /\ (i < idx \/ pc = "wait")

\* Both tasks of the batch <<1, 2>> were dispatched, and task 2 is Done while task 1
\* is still Running: the later task finished first.
C31_Witness ==
    /\ InBatch
    /\ ready = <<1, 2>>
    /\ State(tg, 2) = "Done"
    /\ State(tg, 1) = "Running"
    /\ wpc[1] = "fn"


\* ------------------------------------------------------------------ claims: Manager.mu
\* Both callers have returned.
BothDone == \A c \in Callers : cl[c].pc = "done"

\* The results and the final state are those of the call of c1 followed by the call
\* of c2, started on the state the callers found.
SerialOrder(c1, c2) ==
    \E o1 \in MgrOutcomes(base, cl[c1].call) :
       \E o2 \in MgrOutcomes([graphs |-> o1.graphs, files |-> o1.files], cl[c2].call) :
          /\ cl[c1].res = o1.res
          /\ cl[c2].res = o2.res
          /\ graphs = o2.graphs
          /\ files = o2.files

ReadyInBase(id) ==
    /\ "g" \in DOMAIN base.graphs
    /\ HasNode(base.graphs["g"], id)
    /\ GetNode(base.graphs["g"], id).Data.Status = "ready"

\* C32: the calls of the Manager are serialized by its mutex: at most one caller is
\* inside a method and nobody changes the state it works on; two concurrent
\* Transition(1, running) on a ready node end with exactly one success and one
\* invalid-transition error; and for every pair of concurrent calls out of Upsert,
\* Transition, Remove, ReadNodes, Save and Delete, the results and the final state are
\* those of one of the two sequential orders.
C32_ManagerSerialized ==
    /\ \A c \in Callers : cl[c].pc = "in" =>
          /\ mmu = c
          /\ cl[c].seen = [graphs |-> graphs, files |-> files]
          /\ \A d \in Callers \ {c} : cl[d].pc # "in"
    /\ BothDone => SerialOrder(1, 2) \/ SerialOrder(2, 1)
    /\ /\ BothDone
       /\ \A c \in Callers : cl[c].call = MgrCall("transition", "g", 1, "running")
       /\ ReadyInBase(1)
       => /\ \E c \in Callers : cl[c].res.err = "" /\ cl[c].res.new = "running"
          /\ \E c \in Callers : cl[c].res.err = "invalid"
          /\ GetNode(graphs["g"], 1).Data.Status = "running"

\* Two callers asked for Transition(1, running) on the ready node 1 at the same time:
\* caller 2 got the lock first and succeeded, caller 1 was refused.
C32_Witness ==
    /\ BothDone
    /\ \A c \in Callers : cl[c].call = MgrCall("transition", "g", 1, "running")
    /\ ReadyInBase(1)
    /\ cl[2].res.err = ""
    /\ cl[1].res.err = "invalid"


\* ------------------------------------------------------------------ claims: Server.Run
\* C33: Server.Run terminates; on a finite input it returns after the last line has
\* been handled, unless a write fails: then it returns that error at once, the
\* response is not in the output, and no later line is read or handled, so that the
\* cache and the directory stay as the failing request left them.
C33_RunTerminates ==
    /\ (srun.pc = "running") ~> (srun.pc = "returned")
    /\ [](srun.pc = "returned" /\ srun.err # "write" => Len(lines) = srun.n)
    /\ [](srun.pc = "returned" /\ srun.err = "write" =>
             /\ Len(lines) >= 1
             /\ HandleLine([graphs |-> graphs, files |-> files, out |-> out],
                           Last(lines)).out # out)
    /\ [][srun.pc = "returned" => UNCHANGED <<graphs, files, lines, out, srun>>]_vars


\* ------------------------------------------------------------------ claims: Manager.List
\* The entries that List returns now.
Listed == ListCall(graphs, files).info

\* C34: List reports exactly the graphs that have a file, one entry per file: a graph
\* that is open but has no file is not listed, a graph with a file that is not in the
\* cache is listed with the counts of the graph stored in the file (those that opening
\* it would report), and a graph with a file that is in the cache is listed with the
\* counts of the cached graph; List changes neither the cache nor the directory.
C34_ListReportsFiles ==
    /\ [](/\ ListCall(graphs, files).err = ""
          /\ {Listed[i].Name : i \in DOMAIN Listed} = DOMAIN files
          /\ Len(Listed) = Cardinality(DOMAIN files)
          /\ \A i \in DOMAIN Listed :
                LET name == Listed[i].Name
                IN IF name \in DOMAIN graphs
                   THEN Listed[i] = graphInfo(name, graphs[name])
                   ELSE <<Listed[i]>> = OpenCall(graphs, files, name).res.info)
    /\ [][mres'.op = "list" =>
             mres' = ListCall(graphs, files) /\ UNCHANGED <<graphs, files>>]_vars

\* List has just reported two files: "g", which is in the cache with a node that its
\* file does not have, and "h", which is not in the cache and whose file has a node.
C34_Witness ==
    /\ mres.op = "list"
    /\ Len(mres.info) = 2
    /\ "g" \in DOMAIN graphs /\ "g" \in DOMAIN files
    /\ Order(graphs["g"]) = 1 /\ Len(files["g"].graph.nodes) = 0
    /\ mres.info[1].NodeCount = 1
    /\ "h" \notin DOMAIN graphs /\ "h" \in DOMAIN files
    /\ mres.info[2].NodeCount = 1


\* ------------------------------------------------------------------ claims: Upsert, accounting
\* Requests about the nodes 1 and 3 and the edges between them, with entries whose ID
\* or endpoint is empty (0): up to two node entries with up to one edge entry, or two
\* edge entries.
AccountNodes == {UpsertNode(id, "A", "", EmptyMap, <<>>) : id \in {0, 1, 3}}

AccountEdges ==
    {UpsertEdge(from, to, "", 0, EmptyMap, <<>>) : from \in {0, 1, 3}, to \in {0, 1, 3}}

AccountRequests ==
    {[Nodes |-> ns, Edges |-> es] :
       ns \in UpToTwo(AccountNodes), es \in {<<>>} \cup {<<e>> : e \in AccountEdges}}
    \cup {[Nodes |-> <<>>, Edges |-> <<e1, e2>>] : e1 \in AccountEdges, e2 \in AccountEdges}

\* C35: for every request NodesCreated is the number of nodes after the call minus the
\* number before, EdgesCreated is the number of edges after minus the number before,
\* no node and no edge is removed, and an entry with an empty ID creates nothing.
C35_UpsertAccounting ==
    \A name \in DOMAIN graphs : \A req \in AccountRequests \cup BatchRequests :
       LET g == graphs[name]
           st == UpsertApply(g, req)
       IN /\ st.res.NodesCreated = Order(st.g) - Order(g)
          /\ st.res.EdgesCreated = Size(st.g) - Size(g)
          /\ DOMAIN g.nodes \subseteq DOMAIN st.g.nodes
          /\ EdgePairs(g) \subseteq EdgePairs(st.g)
          /\ 0 \notin DOMAIN st.g.nodes

\* An Upsert that listed only the edge 1 -> 2 on an empty graph created the two
\* endpoints and the edge.
C35_Witness ==
    /\ mres.op = "upsert" /\ mres.err = ""
    /\ ureq.Nodes = <<>> /\ Len(ureq.Edges) = 1
    /\ mres.counts.NodesCreated = 2 /\ mres.counts.EdgesCreated = 1
    /\ Order(graphs["g"]) = 2 /\ Size(graphs["g"]) = 1


\* ------------------------------------------------------------------ claims: Unmarshal, ApplyMeta
DocNodeIDs(d) == {d.graph.nodes[i].id : i \in DOMAIN d.graph.nodes}

\* An edge of the document has an endpoint that is not among its nodes.
Dangling(d) ==
    \E i \in DOMAIN d.graph.edges :
       d.graph.edges[i].from \notin DocNodeIDs(d) \/ d.graph.edges[i].to \notin DocNodeIDs(d)

\* g has the nodes and the edges of the document, and stores only on nodes and edges
\* it has; every metadata entry of the document for one of them is in its store.
Complete(g, d) ==
    /\ g.Directed = d.directed
    /\ DOMAIN g.nodes = DocNodeIDs(d)
    /\ \A i \in DOMAIN d.graph.edges : HasEdge(g, d.graph.edges[i].from, d.graph.edges[i].to)
    /\ Size(g) = Len(d.graph.edges)
    /\ DOMAIN g.nodeMeta \subseteq DOMAIN g.nodes
    /\ \A p \in DOMAIN g.edgeMeta : HasEdge(g, p[1], p[2])
    /\ \A i \in DOMAIN d.metadata.nodes :
          LET nm == d.metadata.nodes[i]
          IN nm.id \in DOMAIN g.nodes => DOMAIN nm.entries \subseteq DOMAIN NodeMeta(g, nm.id)
    /\ \A i \in DOMAIN d.metadata.edges :
          LET em == d.metadata.edges[i]
          IN HasEdge(g, em.from, em.to) =>
                DOMAIN em.entries \subseteq DOMAIN EdgeMeta(g, em.from, em.to)

\* C36: Unmarshal returns a complete graph, or an error and no graph: it fails exactly
\* on a version other than 1 and on an edge with an endpoint that is not among the
\* nodes; metadata entries for a node or edge that the decoded graph does not have
\* are skipped without an error and create nothing.  ApplyMeta skips the same way,
\* returns no error, and leaves the nodes and edges of its target as they are.
C36_UnmarshalAllOrNothing ==
    \A d \in Documents :
       LET r == Unmarshal(d)
           a == ApplyMeta(d, gr)
       IN /\ r.err # "" <=> (d.version # 1 \/ Dangling(d))
          /\ r.err # "" => r.g = NewGraph(TRUE)
          /\ r.err = "" => Complete(r.g, d)
          /\ a.err = ""
          /\ a.g.nodes = gr.nodes /\ a.g.out = gr.out /\ a.g.in = gr.in
          /\ \A id \in DOMAIN a.g.nodeMeta : id \in DOMAIN gr.nodes \cup DOMAIN gr.nodeMeta
          /\ \A p \in DOMAIN a.g.edgeMeta : HasEdge(gr, p[1], p[2]) \/ p \in DOMAIN gr.edgeMeta

\* Unmarshal has decoded without error a document with metadata for the node 3 and
\* the edge 3 -> 1 that its topology does not have: the graph has neither.
C36_Witness ==
    /\ gres.op = "Unmarshal" /\ gres.err = ""
    /\ doc.metadata.nodes # <<>> /\ Last(doc.metadata.nodes) = StrayNodeMeta
    /\ Last(doc.metadata.edges) = StrayEdgeMeta
    /\ DOMAIN gr.nodes = {1, 2}
    /\ DOMAIN gr.nodeMeta = {2}
    /\ DOMAIN gr.edgeMeta = {<<1, 2>>}


\* ------------------------------------------------------------------ claims: ReadNodes
\* The pages read at the offsets offset, offset + L, ... while HasMore is true, one
\* after the other.
RECURSIVE ReadAll(_, _, _, _, _)
ReadAll(g, ids, fs, L, offset) ==
    LET r == ReadNodes(g, ReadNodesRequest(ids, fs, L, offset))
    IN IF r.HasMore THEN r.ids \o ReadAll(g, ids, fs, L, offset + L) ELSE r.ids

\* The existing candidate nodes that pass the filters.
Matching(g, ids, fs) ==
    {id \in (IF ids = <<>> THEN DOMAIN g.nodes ELSE {ids[i] : i \in DOMAIN ids}) :
       HasNode(g, id) /\ matchesFilters(g, id, fs)}

\* How often id occurs in a sequence.
Occurrences(seq, id) == Cardinality({i \in DOMAIN seq : seq[i] = id})

\* Every page at an offset up to the number of matches reports the same Total, and
\* HasMore exactly when matches remain after it.
PagesAgree(g, ids, fs, L, total) ==
    \A offset \in 0..total :
       LET r == ReadNodes(g, ReadNodesRequest(ids, fs, L, offset))
       IN r.Total = total /\ (r.HasMore <=> offset + Len(r.ids) < total)

\* C37 (as stated): for every request, with or without an ID list, and every limit
\* L > 0, the pages at 0, L, 2L, ... hold every matching candidate node exactly once in
\* ascending ID order, Total is the number of such nodes on every page, HasMore is
\* true exactly when matches remain, and a limit of 0 or less means 100.
C37_Pagination ==
    \A name \in DOMAIN graphs : \A ids \in ReadIDLists, fs \in ReadFilters :
       LET g == graphs[name]
           m == Matching(g, ids, fs)
       IN /\ \A L \in 1..2 :
                /\ ReadAll(g, ids, fs, L, 0) = SortedSeq(m)
                /\ PagesAgree(g, ids, fs, L, Cardinality(m))
          /\ \A L \in {0 - 1, 0}, offset \in 0..2 :
                ReadNodes(g, ReadNodesRequest(ids, fs, L, offset))
                = ReadNodes(g, ReadNodesRequest(ids, fs, defaultLimit, offset))

\* C37 (amended): the same for a request without an ID list or with a list that names
\* no ID twice; in general a node is returned, and counted in Total, as often as the
\* list names it, and the pages are in ascending ID order with equal IDs adjacent.
C37_PaginationPerListing ==
    \A name \in DOMAIN graphs : \A ids \in ReadIDLists, fs \in ReadFilters :
       LET g == graphs[name]
           m == Matching(g, ids, fs)
           NoRepeat == \A i, j \in DOMAIN ids : ids[i] = ids[j] => i = j
       IN /\ \A L \in 1..2 :
                LET all == ReadAll(g, ids, fs, L, 0)
                IN /\ NoRepeat => all = SortedSeq(m)
                   /\ \A i, j \in DOMAIN all : i < j => all[i] <= all[j]
                   /\ {all[i] : i \in DOMAIN all} = m
                   /\ \A id \in m :
                         Occurrences(all, id) = IF ids = <<>> THEN 1 ELSE Occurrences(ids, id)
                   /\ PagesAgree(g, ids, fs, L, Len(all))
          /\ \A L \in {0 - 1, 0}, offset \in 0..2 :
                ReadNodes(g, ReadNodesRequest(ids, fs, L, offset))
                = ReadNodes(g, ReadNodesRequest(ids, fs, defaultLimit, offset))

\* The second page of a read of the list <<3, 4, 2>> with a limit of 1: node 4 does
\* not exist, the page holds node 3, Total is 2 and nothing remains.
C37_Witness ==
    /\ mres.op = "read"
    /\ rreq = ReadNodesRequest(<<3, NumNodes + 1, 2>>, <<>>, 1, 1)
    /\ mres.ids = <<3>>
    /\ mres.total = 2
    /\ ~mres.more

\* ------------------------------------------------------------------ claims: TopologicalSort
\* The orders of all nodes of g in which a comes before b for every edge a -> b.
Before(p, a, b) == \E i, j \in DOMAIN p : i < j /\ p[i] = a /\ p[j] = b

EdgeOrders(g) ==
    {p \in Perms(DOMAIN g.nodes) :
        \A a, b \in IDs : HasEdge(g, a, b) => Before(p, a, b)}

\* p is q, or smaller than q at the first place where they differ.
LexLeq(p, q) ==
    \/ p = q
    \/ \E i \in DOMAIN p : /\ i \in DOMAIN q /\ p[i] < q[i]
                           /\ \A j \in 1..(i - 1) : p[j] = q[j]

\* C38: TopologicalSort on a directed graph returns either an order with every node
\* exactly once in which a precedes b for every edge a -> b, and which is the
\* lexicographically smallest such order by node ID, or the cycle error; it returns the
\* cycle error exactly when CycleDetect on the same graph returns true, self-loops
\* included; and it fails for every undirected graph.
C38_TopologicalSort ==
    /\ gres.op = "TopologicalSort" =>
          /\ topo.order = TopologicalSort(gr).order /\ topo.err = TopologicalSort(gr).err
          /\ topo.found = CycleDetect(gr).found
    /\ ~gr.Directed => TopologicalSort(gr).err \notin {"", "cycle"}
    /\ gr.Directed =>
          /\ TopologicalSort(gr).err \in {"", "cycle"}
          /\ TopologicalSort(gr).err = "" =>
                /\ TopologicalSort(gr).order \in EdgeOrders(gr)
                /\ \A p \in EdgeOrders(gr) : LexLeq(TopologicalSort(gr).order, p)
          /\ (TopologicalSort(gr).err = "cycle") <=> CycleDetect(gr).found
          /\ (\E a \in IDs : HasEdge(gr, a, a)) => TopologicalSort(gr).err = "cycle"

\* Node 3 before node 2 by an edge: the order is 1, 3, 2.
C38_Witness ==
    /\ gres.op = "TopologicalSort" /\ gr.Directed
    /\ HasEdge(gr, 3, 2)
    /\ topo.err = "" /\ topo.order = <<1, 3, 2>> /\ ~topo.found

\* ------------------------------------------------------------------ claims: Run, any states
\* The tasks of g that can end Done: those that are Done, and, step by step, the Pending
\* and Ready ones whose dependencies all can.
RECURSIVE CanEndDone(_, _)
CanEndDone(g, D) ==
    LET more == {id \in DOMAIN g.nodes \ D :
                    /\ State(g, id) \in {"Pending", "Ready"}
                    /\ Deps(g, id) \subseteq D}
    IN IF more = {} THEN D ELSE CanEndDone(g, D \cup more)

\* Task id of g can never have all its dependencies Done.
NeverAllDone(g, id) ==
    ~(Deps(g, id) \subseteq CanEndDone(g, {d \in DOMAIN g.nodes : State(g, d) = "Done"}))

\* C39: Run terminates for every task graph and every assignment of states when the
\* callbacks terminate, dependency cycles and Skipped or Failed dependencies included:
\* the tasks that can never have all dependencies Done are never started, the Pending
\* ones stay Pending, and Run returns nil if no started callback failed.
C39_RunTerminatesAnyStates ==
    /\ (pc \notin {"idle", "returned"}) ~> (pc = "returned")
    /\ [](pc # "idle" =>
            \A id \in DOMAIN tg0.nodes :
               NeverAllDone(tg0, id) =>
                  /\ calls[id] = 0 /\ wpc[id] = "idle"
                  /\ State(tg0, id) = "Pending" => State(tg, id) = "Pending")
    /\ [](pc = "returned" /\ fnErrs = {} => ret = NilResult)

\* ------------------------------------------------------------------ claims: Upsert and the state table
\* An Upsert request that gives node id the status.
StatusRequest(id, status) ==
    [Nodes |-> <<UpsertNode(id, "", status, EmptyMap, <<>>)>>, Edges |-> <<>>]

\* C40: Upsert does not consult the state table.  A node entry with a non-empty status
\* overwrites the current status of the node whatever it is (done and skipped too) and
\* whatever the new one is (strings outside the six statuses too); no other node changes,
\* so no dependent is made ready and none is reported; a Transition that changes a
\* status follows the table.
C40_UpsertIgnoresTable ==
    \A name \in DOMAIN graphs :
       /\ \A id \in DOMAIN graphs[name].nodes, status \in Statuses \ {""} :
             \E r \in {UpsertCall(graphs, name, StatusRequest(id, status))} :
                /\ r.res.err = ""
                /\ GetNode(r.graphs[name], id).Data.Status = status
                /\ r.res.counts.NodesUpdated =
                      IF GetNode(graphs[name], id).Data.Status = status THEN 0 ELSE 1
                /\ DOMAIN r.graphs[name].nodes = DOMAIN graphs[name].nodes
                /\ \A other \in DOMAIN graphs[name].nodes \ {id} :
                      GetNode(r.graphs[name], other) = GetNode(graphs[name], other)
                /\ r.res.newlyReady = <<>>
       /\ \A id \in DOMAIN graphs[name].nodes, status \in Statuses :
             \A order \in OutOrders(graphs, name, id, status) :
                \E r \in {TransitionCall(graphs, name, id, status, order)} :
                   r.graphs # graphs =>
                      TransitionAllowed(GetNode(graphs[name], id).Data.Status, status)

\* An Upsert has just changed a status, and node 1 is done while node 2, which depends
\* on node 1 alone, is pending, and node 3 has a status that is none of the six.
C40_Witness ==
    /\ mres.op = "upsert" /\ mres.counts.NodesUpdated = 1
    /\ \E name \in DOMAIN graphs :
          /\ {1, 2, 3} \subseteq DOMAIN graphs[name].nodes
          /\ HasEdge(graphs[name], 1, 2) /\ ~HasEdge(graphs[name], 3, 2)
          /\ GetNode(graphs[name], 1).Data.Status = "done"
          /\ GetNode(graphs[name], 2).Data.Status = "pending"
          /\ GetNode(graphs[name], 3).Data.Status = "bogus"

====
